---- MODULE Spec2Model ----
(***************************************************************************)
(* BookmarkCleaner: the bookmark parser (parse_html, walk_dom,             *)
(* should_skip), the link validator (check_link), the smart upgrade        *)
(* checker (check_link_smart), the concurrent scanner (scan_bookmarks),    *)
(* the consumer loop and key handler of main, and the rewriter             *)
(* (process_bookmarks, extract_href).                                      *)
(*                                                                         *)
(* The specifications of the module:                                       *)
(*   ProbeSpec      one call of check_link_smart on one URL, one step per  *)
(*                  network attempt and per backoff delay;                 *)
(*   Spec           scan_bookmarks with its per-record tasks, the          *)
(*                  semaphore, the bounded channel, the consumer loop of   *)
(*                  main and the end of the program;                       *)
(*   IsolationSpec  the same scan, the responses of one record kept;       *)
(*   LiveSpec       the same scan under fair scheduling, with a consumer   *)
(*                  that keeps draining;                                   *)
(*   ParseSpec      one call of parse_html on a document tree;             *)
(*   SkipSpec       one call of should_skip;                               *)
(*   RewriteSpec    one pass of the rewriting loop of process_bookmarks;   *)
(*   HrefSpec       the url of one link line, as the parser stores it and  *)
(*                  as extract_href returns it;                            *)
(*   ReviewSpec     the loop of main with every key, the pairs arriving    *)
(*                  in any order, and the save;                            *)
(*   UpgradeSpec    the drain loop of main aggregating the results of      *)
(*                  records of several upgradable urls.                    *)
(* Text is modelled as a tuple of one-character strings, so starts_with,   *)
(* replace, lines, trim and find are computed character by character.      *)
(***************************************************************************)
EXTENDS Integers, Sequences, FiniteSets, TLC

\* ------------------------------------------------------------------ bounds
MaxRetries == 2
MaxRecords == 2
MaxConcurrent == 2
ChannelCapacity == 1
MaxNodes == 4

\* ------------------------------------------------------- program constants
BACKOFF_MS == 2000

\* -------------------------------------------------------------------- text
StartsWith(s, p) == Len(s) >= Len(p) /\ SubSeq(s, 1, Len(p)) = p

RECURSIVE Replace(_, _, _)
\* str::replace: every non-overlapping match of from, left to right
Replace(s, from, to) ==
    IF s = <<>> THEN <<>>
    ELSE IF StartsWith(s, from)
         THEN to \o Replace(SubSeq(s, Len(from) + 1, Len(s)), from, to)
         ELSE <<Head(s)>> \o Replace(Tail(s), from, to)

HTTP == <<"h", "t", "t", "p">>
HTTP_SCHEME == <<"h", "t", "t", "p", ":", "/", "/">>
HTTPS_SCHEME == <<"h", "t", "t", "p", "s", ":", "/", "/">>

U_http == HTTP_SCHEME \o <<"a">>
U_https == HTTPS_SCHEME \o <<"a">>
U_ftp == <<"f", "t", "p", ":", "/", "/", "a">>
U_upper == <<"H", "T", "T", "P", ":", "/", "/", "a">>
U_httpx == <<"h", "t", "t", "p", "x", ":", "/", "/", "a">>
U_nested == HTTP_SCHEME \o <<"a", "/">> \o HTTP_SCHEME \o <<"b">>

URLS == {U_http, U_https, U_ftp, U_upper, U_httpx, U_nested}

\* -------------------------------------------------------------- LinkStatus
NoStatus == [tag |-> "None"]
Ok == [tag |-> "Ok"]
Dead(reason) == [tag |-> "Dead", reason |-> reason]
Upgraded(new_url) == [tag |-> "Upgraded", url |-> new_url]
IsDead(st) == st.tag = "Dead"

\* ------------------------------------------- the outcomes of one GET request
Response(code) ==
    [t |-> "resp", code |-> code, timeout |-> FALSE, connect |-> FALSE,
     redirect |-> FALSE, text |-> ""]
Failure(timeout, connect, redirect, text) ==
    [t |-> "err", code |-> 0, timeout |-> timeout, connect |-> connect,
     redirect |-> redirect, text |-> text]

StatusCodes == {200, 204, 304, 401, 403, 404, 410, 429, 500, 503}
E_timeout == Failure(TRUE, FALSE, FALSE, "operation timed out")
E_connect == Failure(FALSE, TRUE, FALSE, "error trying to connect")
E_connect_timeout == Failure(TRUE, TRUE, FALSE, "connect timed out")
E_redirect == Failure(FALSE, FALSE, TRUE, "too many redirects")
E_request == Failure(FALSE, FALSE, FALSE, "error sending request")
E_builder == Failure(FALSE, FALSE, FALSE, "builder error")

NoResponse == Failure(FALSE, FALSE, FALSE, "")

ToLower(c) ==
    CASE c = "A" -> "a" [] c = "C" -> "c" [] c = "H" -> "h" [] c = "L" -> "l"
      [] c = "O" -> "o" [] c = "P" -> "p" [] c = "S" -> "s" [] c = "T" -> "t"
      [] c = "D" -> "d" [] c = "E" -> "e" [] c = "F" -> "f" [] c = "R" -> "r"
      [] OTHER -> c

RECURSIVE Scheme(_)
\* the scheme of a URL: the text before the first colon, in lower case
Scheme(url) ==
    IF url = <<>> \/ Head(url) = ":" THEN <<>>
    ELSE <<ToLower(Head(url))>> \o Scheme(Tail(url))

IsWebScheme(url) == Scheme(url) \in {HTTP, HTTP \o <<"s">>}

\* the behaviours of the network considered: by ProbeSpec all of them, by
\* Spec one of each kind that check_link_smart tells apart
ProbeNet ==
    [codes |-> StatusCodes,
     failures |-> {E_timeout, E_connect, E_connect_timeout, E_redirect,
                   E_request}]
ScanNet == [codes |-> {200, 404}, failures |-> {E_connect}]

\* what client.get(url).send() can yield: a request is sent only for a URL
\* whose scheme is http or https, any other URL is refused before any I/O
NetResponses(url, net) ==
    IF IsWebScheme(url)
    THEN {Response(c) : c \in net.codes} \cup net.failures
    ELSE {E_builder}

\* --------------------------------------------------------------- check_link
is_success(code) == 200 <= code /\ code <= 299

\* Display of http::StatusCode: the code and its canonical reason
StatusDisplay(code) ==
    CASE code = 404 -> "404 Not Found"
      [] code = 410 -> "410 Gone"
      [] OTHER -> ToString(code)

\* mutant: every status that is not a success counts as dead
OnResponseStrict(code) ==
    IF is_success(code) THEN Ok
    ELSE Dead(StatusDisplay(code) \o " Not Found/Gone")

\* the arm Ok(resp) of the match
OnResponse(code) ==
    IF is_success(code) THEN Ok
    ELSE IF code = 404 \/ code = 410
         THEN Dead(StatusDisplay(code) \o " Not Found/Gone")
         ELSE Ok

\* mutant: is_connect is tested before is_timeout
ExhaustedReasonConnectFirst(e) ==
    IF e.connect THEN "DNS/Connection Error"
    ELSE IF e.timeout THEN "Timeout"
    ELSE IF e.redirect THEN "Redirect Loop"
    ELSE e.text

\* the reason given once the retries are used up
ExhaustedReason(e) ==
    IF e.timeout THEN "Timeout"
    ELSE IF e.connect THEN "DNS/Connection Error"
    ELSE IF e.redirect THEN "Redirect Loop"
    ELSE e.text

\* mutant: the comparison off by one
RetriesExhaustedLate(attempts, max_retries) == attempts > max_retries

RetriesExhausted(attempts, max_retries) == attempts >= max_retries

\* mutant: connect failures are not retried
IsRetryableTimeoutOnly(e) == e.timeout

\* mutant: every transport failure is retried
IsRetryableAny(e) == TRUE

IsRetryable(e) == e.timeout \/ e.connect

\* one iteration of the loop: either the status check_link returns, or
\* ret = FALSE for "attempts += 1; sleep; continue"
LoopBody(r, attempts, max_retries) ==
    IF r.t = "resp" THEN [ret |-> TRUE, status |-> OnResponse(r.code)]
    ELSE IF RetriesExhausted(attempts, max_retries)
         THEN [ret |-> TRUE, status |-> Dead(ExhaustedReason(r))]
    ELSE IF IsRetryable(r) THEN [ret |-> FALSE, status |-> NoStatus]
    ELSE [ret |-> TRUE, status |-> Dead(r.text)]

\* the guard before the loop
SkipsNetwork(url) == ~StartsWith(url, HTTP)

\* the https counterpart check_link_smart builds
HttpsUrl(url) == Replace(url, HTTP_SCHEME, HTTPS_SCHEME)

\* mutant: the second probe is made for every url that starts with http
TriesHttpsAnyWeb(url, st) == IsDead(st) /\ StartsWith(url, HTTP)

\* whether check_link_smart makes the second probe
TriesHttps(url, st) == IsDead(st) /\ StartsWith(url, HTTP_SCHEME)

\* mutant: the result of the second probe is not looked at
SmartResultFirstOnly(url, st, https_status) == st

\* mutant: a failing second probe replaces the first status
SmartResultLastWins(url, st, https_status) ==
    IF https_status = Ok THEN Upgraded(HttpsUrl(url)) ELSE https_status

\* what check_link_smart returns after the second probe
SmartResult(url, st, https_status) ==
    IF https_status = Ok THEN Upgraded(HttpsUrl(url)) ELSE st

\* ---------------------- check_link and check_link_smart as sets of outcomes
RECURSIVE check_link_from(_, _, _, _)
\* the statuses the loop can return from the given value of attempts on
check_link_from(url, attempts, max_retries, net) ==
    UNION { LET d == LoopBody(r, attempts, max_retries)
            IN  IF d.ret THEN {d.status}
                ELSE check_link_from(url, attempts + 1, max_retries, net)
          : r \in NetResponses(url, net) }

check_link(url, max_retries, net) ==
    IF SkipsNetwork(url) THEN {Ok}
    ELSE check_link_from(url, 0, max_retries, net)

check_link_smart(url, max_retries, net) ==
    UNION { IF TriesHttps(url, st)
            THEN {SmartResult(url, st, https_status) :
                     https_status \in check_link(HttpsUrl(url), max_retries, net)}
            ELSE {st}
          : st \in check_link(url, max_retries, net) }

\* ------------- check_link and check_link_smart on a given run of responses
RECURSIVE ReplayLoop(_, _, _)
\* the loop fed with the responses rs, one per request: the status returned
\* (NoStatus when rs ends before the loop returns) and the responses left
ReplayLoop(attempts, max_retries, rs) ==
    IF rs = <<>> THEN [status |-> NoStatus, rest |-> <<>>]
    ELSE LET d == LoopBody(Head(rs), attempts, max_retries)
         IN  IF d.ret THEN [status |-> d.status, rest |-> Tail(rs)]
             ELSE ReplayLoop(attempts + 1, max_retries, Tail(rs))

ReplayCheckLink(url, max_retries, rs) ==
    IF SkipsNetwork(url) THEN [status |-> Ok, rest |-> rs]
    ELSE ReplayLoop(0, max_retries, rs)

ReplaySmart(url, max_retries, rs) ==
    LET first == ReplayCheckLink(url, max_retries, rs)
    IN  IF first.status = NoStatus THEN first
        ELSE IF TriesHttps(url, first.status)
        THEN LET second == ReplayCheckLink(HttpsUrl(url), max_retries,
                                           first.rest)
             IN  IF second.status = NoStatus THEN second
                 ELSE [status |-> SmartResult(url, first.status, second.status),
                       rest |-> second.rest]
        ELSE first

RECURSIVE LoopRuns(_, _, _, _)
\* the runs of responses the loop can get from the network before it
\* returns: one response per request
LoopRuns(url, attempts, max_retries, net) ==
    UNION { IF LoopBody(r, attempts, max_retries).ret THEN {<<r>>}
            ELSE {<<r>> \o rest :
                     rest \in LoopRuns(url, attempts + 1, max_retries, net)}
          : r \in NetResponses(url, net) }

CheckLinkRuns(url, max_retries, net) ==
    IF SkipsNetwork(url) THEN {<<>>}
    ELSE LoopRuns(url, 0, max_retries, net)

\* the runs of responses one call of check_link_smart can get
ResponseRuns(url, max_retries, net) ==
    UNION { IF TriesHttps(url, ReplayCheckLink(url, max_retries, first).status)
            THEN {first \o second :
                     second \in CheckLinkRuns(HttpsUrl(url), max_retries, net)}
            ELSE {first}
          : first \in CheckLinkRuns(url, max_retries, net) }

\* =========================================================================
\* State
\* =========================================================================
VARIABLES
    \* one call of check_link_smart (ProbeSpec)
    p_url,        \* the url argument
    p_retries,    \* the retries argument
    p_pc,         \* "start", "get" (a request is awaited), "sleep", "done"
    p_phase,      \* 1: check_link on url, 2: check_link on https_url
    p_cur,        \* the url of the running check_link call
    p_attempts,   \* the local attempts of the running check_link call
    p_status,     \* status, the result of the first check_link call
    p_https,      \* https_status, the result of the second check_link call
    p_result,     \* what check_link_smart returned
    p_log,        \* history: the requests sent and the delays slept
    \* scan_bookmarks and its tasks (Spec)
    bookmarks,           \* the urls of bookmarks_clone, the list scanned
    concurrent_requests,
    retries,
    permits,             \* the permits the semaphore has left
    scan_pc,             \* "acquire", "join", "returned", "cancelled"
    next_index,          \* how many records the for loop has spawned
    join_index,          \* how many handles the second loop has awaited
    task,                \* per record: "none", "probing", "sending", "done",
                         \* "cancelled"
    task_status,         \* per record: what its check_link_smart returned
    task_net,            \* history: per record, the responses its requests got
    observed,            \* the records whose history is kept
    chan,                \* the messages buffered in the channel
    rx_alive,            \* the receiver rx has not been dropped
    tx_dropped,          \* scan_bookmarks has dropped its sender tx
    sent,                \* history: per position, the pairs put on the channel
    \* main
    main_pc,             \* "poll", "drain", "exited", "returned", "shutdown"
    app_bookmarks,       \* the urls of app.bookmarks
    app_state,           \* "Scanning", "Finished", "Saved", "Error"
    should_quit,
    scanned_count,
    dead_links,          \* app.dead_links: <<index, reason>>, in push order
    upgraded_links,      \* the map old url -> new url
    \* the parser
    exclude_folders,     \* Parser.exclude_folders
    ignore_local,        \* Parser.ignore_local
    document,            \* the children of <body> in the parsed document
    parse_pc,            \* "start", "done" (parse_html has returned), "idle"
    parsed,              \* what the walk produced: the records and its history
    skip_url,            \* one call of should_skip: url_str
    skip_path,           \* one call of should_skip: folder_path
    skip_pc,             \* "start", "done", "idle"
    skip_result,         \* what should_skip returned
    \* the rewriter and the review of the dead links
    original_html,       \* the text read from the input file
    urls_to_remove,      \* process_bookmarks: the urls whose lines are dropped
    upgraded,            \* process_bookmarks: the map handed in
    new_lines,           \* process_bookmarks: the lines pushed
    cleaned_content,     \* what process_bookmarks returned
    rewrite_pc,          \* "start", "done", "idle"
    bookmarks_to_keep,   \* app.bookmarks_to_keep
    list_state,          \* app.list_state.selected(), always Some(i): i
    link_line,           \* one line of an export holding one link
    link_pc,             \* "start", "done", "idle"
    link_url,            \* the url the parser stores for the link
    link_href            \* what extract_href returns for the line

probe_vars == <<p_url, p_retries, p_pc, p_phase, p_cur, p_attempts, p_status,
                p_https, p_result, p_log>>

scan_vars == <<bookmarks, concurrent_requests, retries, permits, scan_pc,
               next_index, join_index, task, task_status, task_net, observed,
               chan, rx_alive, tx_dropped, sent>>

main_vars == <<main_pc, app_bookmarks, app_state, should_quit, scanned_count,
               dead_links, upgraded_links>>

parse_vars == <<exclude_folders, ignore_local, document, parse_pc, parsed,
                skip_url, skip_path, skip_pc, skip_result>>

rewrite_vars == <<original_html, urls_to_remove, upgraded, new_lines,
                  cleaned_content, rewrite_pc, bookmarks_to_keep, list_state,
                  link_line, link_pc, link_url, link_href>>

vars == <<probe_vars, scan_vars, main_vars, parse_vars, rewrite_vars>>

\* =========================================================================
\* ProbeSpec: one call of check_link_smart
\* =========================================================================
\* no parse runs
ParseIdle ==
    /\ exclude_folders = {} /\ ignore_local = FALSE /\ document = <<>>
    /\ parse_pc = "idle" /\ parsed = <<>> /\ skip_url = <<>>
    /\ skip_path = <<>> /\ skip_pc = "idle" /\ skip_result = FALSE

\* no rewrite runs, and the app is as App::new leaves it
RewriteIdle ==
    /\ original_html = <<>> /\ urls_to_remove = {} /\ upgraded = <<>>
    /\ new_lines = <<>> /\ cleaned_content = <<>> /\ rewrite_pc = "idle"
    /\ bookmarks_to_keep = {} /\ list_state = 0
    /\ link_line = <<>> /\ link_pc = "idle" /\ link_url = <<>>
    /\ link_href = <<>>

\* no scan runs
ScanIdle ==
    /\ bookmarks = <<>> /\ concurrent_requests = 1 /\ retries = 0
    /\ permits = 1 /\ scan_pc = "returned" /\ next_index = 0
    /\ join_index = 0 /\ task = <<>> /\ task_status = <<>> /\ chan = <<>>
    /\ task_net = <<>> /\ observed = {}
    /\ rx_alive = FALSE /\ tx_dropped = TRUE /\ sent = <<>>
    /\ main_pc = "shutdown" /\ app_bookmarks = <<>> /\ app_state = "Scanning"
    /\ should_quit = FALSE /\ scanned_count = 0 /\ dead_links = <<>>
    /\ upgraded_links = <<>>

GetEvent(phase, url, r) ==
    [ev |-> "get", phase |-> phase, url |-> url, resp |-> r, ms |-> 0]
SleepEvent(phase, url) ==
    [ev |-> "sleep", phase |-> phase, url |-> url, resp |-> NoResponse,
     ms |-> BACKOFF_MS]

ProbeIdle ==
    /\ p_url = <<>> /\ p_retries = 0 /\ p_pc = "idle" /\ p_phase = 0
    /\ p_cur = <<>> /\ p_attempts = 0 /\ p_status = NoStatus
    /\ p_https = NoStatus /\ p_result = NoStatus /\ p_log = <<>>

ProbeInit ==
    /\ ScanIdle
    /\ ParseIdle
    /\ RewriteIdle
    /\ p_url \in URLS
    /\ p_retries \in 0..MaxRetries
    /\ p_pc = "start"
    /\ p_phase = 0
    /\ p_cur = <<>>
    /\ p_attempts = 0
    /\ p_status = NoStatus
    /\ p_https = NoStatus
    /\ p_result = NoStatus
    /\ p_log = <<>>

\* check_link_smart returns result
PReturn(st, https_status, result) ==
    /\ p_pc' = "done"
    /\ p_status' = st
    /\ p_https' = https_status
    /\ p_result' = result
    /\ UNCHANGED <<p_phase, p_cur, p_attempts>>

\* check_link(u) is entered in the given phase, past its guard
PEnterLoop(phase, u, st) ==
    /\ p_pc' = "get"
    /\ p_phase' = phase
    /\ p_cur' = u
    /\ p_attempts' = 0
    /\ p_status' = st
    /\ p_https' = NoStatus
    /\ p_result' = NoStatus

\* check_link_smart from the return of a check_link call to its next await
PAfterCheckLink(phase, st) ==
    IF phase = 1
    THEN IF TriesHttps(p_url, st)
         THEN IF SkipsNetwork(HttpsUrl(p_url))
              THEN PReturn(st, Ok, SmartResult(p_url, st, Ok))
              ELSE PEnterLoop(2, HttpsUrl(p_url), st)
         ELSE PReturn(st, NoStatus, st)
    ELSE PReturn(p_status, st, SmartResult(p_url, p_status, st))

\* check_link_smart is called: check_link(url) up to its first request
PCall ==
    /\ p_pc = "start"
    /\ IF SkipsNetwork(p_url)
       THEN PAfterCheckLink(1, Ok)
       ELSE PEnterLoop(1, p_url, NoStatus)
    /\ UNCHANGED <<p_url, p_retries, p_log, scan_vars, main_vars,
                   parse_vars, rewrite_vars>>

\* client.get(url).send().await completes with r
PAttempt(r) ==
    /\ p_pc = "get"
    /\ r \in NetResponses(p_cur, ProbeNet)
    /\ p_log' = Append(p_log, GetEvent(p_phase, p_cur, r))
    /\ LET d == LoopBody(r, p_attempts, p_retries)
       IN  IF d.ret
           THEN PAfterCheckLink(p_phase, d.status)
           ELSE /\ p_pc' = "sleep"
                /\ p_attempts' = p_attempts + 1
                /\ UNCHANGED <<p_phase, p_cur, p_status, p_https, p_result>>
    /\ UNCHANGED <<p_url, p_retries, scan_vars, main_vars,
                   parse_vars, rewrite_vars>>

\* the backoff delay has passed: continue
PSleep ==
    /\ p_pc = "sleep"
    /\ p_pc' = "get"
    /\ p_log' = Append(p_log, SleepEvent(p_phase, p_cur))
    /\ UNCHANGED <<p_url, p_retries, p_phase, p_cur, p_attempts, p_status,
                   p_https, p_result, scan_vars, main_vars,
                   parse_vars, rewrite_vars>>

AllResponses == UNION {NetResponses(u, ProbeNet) : u \in URLS}

ProbeNext ==
    \/ PCall
    \/ \E r \in AllResponses : PAttempt(r)
    \/ PSleep

ProbeSpec == ProbeInit /\ [][ProbeNext]_vars

\* =========================================================================
\* Spec: scan_bookmarks, its tasks, the channel and the loop of main
\* =========================================================================
\* the urls a scanned list is drawn from
ScanURLS == {U_http, U_https, U_ftp}

RecordLists == UNION {[1..n -> ScanURLS] : n \in 0..MaxRecords}

\* the runs of responses the requests of a task can get, per url and retries
ScanRuns ==
    [u \in ScanURLS, r \in 0..MaxRetries |-> ResponseRuns(u, r, ScanNet)]

\* what check_link_smart can return to a task, per url and retries
ScanOutcomes ==
    [u \in ScanURLS \cup {U_nested}, r \in 0..MaxRetries |->
        check_link_smart(u, r, ScanNet)]

Records == 1..Len(bookmarks)

total_bookmarks == Len(bookmarks)

\* mutant: the limit is taken as given
max_concurrent_uncoerced(n) == n

\* Semaphore::new(max_concurrent)
max_concurrent(n) == IF n = 0 THEN 1 ELSE n

\* mutant: the task is spawned without waiting for a permit
CanAcquireAlways(available) == TRUE

\* acquire_owned().await completes only when a permit is left
CanAcquire(available) == available > 0

\* mutant: the pair carries the position in completion order
TaskMessageByArrival(i) ==
    <<Cardinality({j \in DOMAIN task : task[j] = "done"}), task_status[i]>>

\* the pair task i sends: enumerate() counts from 0
TaskMessage(i) == <<i - 1, task_status[i]>>

\* mutant: a send does not notice that the receiver is gone
SendOutcomeBlind(fill, receiver_alive) ==
    IF fill < ChannelCapacity THEN "queued" ELSE "wait"

\* tx.send(..).await on a channel of the given fill: the message is queued,
\* or the call fails at once because the receiver is gone, or it waits
SendOutcome(fill, receiver_alive) ==
    IF ~receiver_alive THEN "closed"
    ELSE IF fill < ChannelCapacity THEN "queued"
    ELSE "wait"

HoldsPermit(i) == task[i] \in {"probing", "sending"}

\* mutant: the handles are not awaited
FinishedOrNot(i) == TRUE

\* h.await completes
Finished(i) == task[i] = "done"

\* main up to the spawn of the scanner, and App::new
Init ==
    /\ ProbeIdle
    /\ RewriteIdle
    /\ ParseIdle
    /\ bookmarks \in RecordLists
    /\ concurrent_requests \in 0..MaxConcurrent
    /\ retries = MaxRetries  \* ProbeSpec varies it; the statuses a task can
                             \* get under ScanNet are the same for each value
    /\ permits = max_concurrent(concurrent_requests)
    /\ scan_pc = IF Len(bookmarks) = 0 THEN "join" ELSE "acquire"
    /\ next_index = 0
    /\ join_index = 0
    /\ task = [i \in Records |-> "none"]
    /\ task_status = [i \in Records |-> NoStatus]
    /\ task_net = [i \in Records |-> <<>>]
    /\ observed = {}
    /\ chan = <<>>
    /\ rx_alive = TRUE
    /\ tx_dropped = FALSE
    /\ sent = [i \in Records |-> 0]
    /\ main_pc = "poll"
    /\ app_bookmarks = bookmarks
    /\ app_state = "Scanning"
    /\ should_quit = FALSE
    /\ scanned_count = 0
    /\ dead_links = <<>>
    /\ upgraded_links = <<>>

\* the for loop: a permit is acquired, then the task of the next record is
\* spawned; after the last record the function goes on to await the handles
ScanSpawn ==
    /\ scan_pc = "acquire"
    /\ next_index < total_bookmarks
    /\ CanAcquire(permits)
    /\ permits' = permits - 1
    /\ task' = [task EXCEPT ![next_index + 1] = "probing"]
    /\ next_index' = next_index + 1
    /\ scan_pc' = IF next_index + 1 = total_bookmarks THEN "join" ELSE "acquire"
    /\ UNCHANGED <<bookmarks, concurrent_requests, retries, join_index,
                   task_status, task_net, observed, chan, rx_alive, tx_dropped, sent>>
    /\ UNCHANGED <<probe_vars, main_vars, parse_vars, rewrite_vars>>

\* mutant: every task probes the url of the first record
ProbeUrlShared(i) == bookmarks[1]

\* the url moved into the task of record i
ProbeUrl(i) == bookmarks[i]

\* the task of record i: check_link_smart returns
TaskProbe(i) ==
    /\ task[i] = "probing"
    /\ \E st \in ScanOutcomes[ProbeUrl(i), retries] :
          task_status' = [task_status EXCEPT ![i] = st]
    /\ task' = [task EXCEPT ![i] = "sending"]
    /\ UNCHANGED <<bookmarks, concurrent_requests, retries, permits, scan_pc,
                   next_index, join_index, task_net, observed, chan, rx_alive,
                   tx_dropped, sent>>
    /\ UNCHANGED <<probe_vars, main_vars, parse_vars, rewrite_vars>>

\* the same step, the responses rs its requests got being kept as history
\* for a record under observation
TaskProbeTraced(i) ==
    /\ task[i] = "probing"
    /\ IF i \in observed
       THEN \E rs \in ScanRuns[ProbeUrl(i), retries] :
              /\ task_status' =
                    [task_status EXCEPT
                        ![i] = ReplaySmart(ProbeUrl(i), retries, rs).status]
              /\ task_net' = [task_net EXCEPT ![i] = rs]
       ELSE \E st \in ScanOutcomes[ProbeUrl(i), retries] :
              /\ task_status' = [task_status EXCEPT ![i] = st]
              /\ UNCHANGED task_net
    /\ task' = [task EXCEPT ![i] = "sending"]
    /\ UNCHANGED <<bookmarks, concurrent_requests, retries, permits, scan_pc,
                   next_index, join_index, observed, chan, rx_alive,
                   tx_dropped, sent>>
    /\ UNCHANGED <<probe_vars, main_vars, parse_vars, rewrite_vars>>

\* mutant: the task ends without giving its permit back
KeepPermit(available) == available

\* drop(permit)
DropPermit(available) == available + 1

\* the task of record i: tx.send returns (its error is ignored), then the
\* permit is dropped and the task ends
TaskSend(i) ==
    /\ task[i] = "sending"
    /\ LET outcome == SendOutcome(Len(chan), rx_alive)
       IN  /\ outcome # "wait"
           /\ IF outcome = "queued"
              THEN /\ chan' = Append(chan, TaskMessage(i))
                   /\ sent' = [j \in Records |->
                                  IF j = TaskMessage(i)[1] + 1 THEN sent[j] + 1
                                  ELSE sent[j]]
              ELSE UNCHANGED <<chan, sent>>
    /\ task' = [task EXCEPT ![i] = "done"]
    /\ permits' = DropPermit(permits)
    /\ UNCHANGED <<bookmarks, concurrent_requests, retries, scan_pc,
                   next_index, join_index, task_status, task_net, observed, rx_alive,
                   tx_dropped>>
    /\ UNCHANGED <<probe_vars, main_vars, parse_vars, rewrite_vars>>

\* the second loop: the next handle's task has ended
ScanJoin ==
    /\ scan_pc = "join"
    /\ join_index < total_bookmarks
    /\ Finished(join_index + 1)
    /\ join_index' = join_index + 1
    /\ UNCHANGED <<bookmarks, concurrent_requests, retries, permits, scan_pc,
                   next_index, task, task_status, task_net, observed, chan, rx_alive,
                   tx_dropped, sent>>
    /\ UNCHANGED <<probe_vars, main_vars, parse_vars, rewrite_vars>>

\* every handle awaited: drop(tx) and return
ScanReturn ==
    /\ scan_pc = "join"
    /\ join_index = total_bookmarks
    /\ scan_pc' = "returned"
    /\ tx_dropped' = TRUE
    /\ UNCHANGED <<bookmarks, concurrent_requests, retries, permits,
                   next_index, join_index, task, task_status, task_net, observed, chan,
                   rx_alive, sent>>
    /\ UNCHANGED <<probe_vars, main_vars, parse_vars, rewrite_vars>>

\* ------------------------------------------------------------------- main
Keys == {"none", "q", "enter"}

\* one pass of the loop up to the drain: no key event, or the key handler
MainPoll(key, write_ok) ==
    /\ main_pc = "poll"
    /\ main_pc' = "drain"
    /\ IF key = "none" THEN UNCHANGED <<app_state, should_quit>>
       ELSE IF app_state \in {"Scanning", "Finished"}
       THEN IF key = "q"
            THEN should_quit' = TRUE /\ UNCHANGED app_state
            ELSE \* Enter
                 /\ app_state' = IF app_state = "Finished"
                                 THEN (IF write_ok THEN "Saved" ELSE "Error")
                                 ELSE app_state
                 /\ UNCHANGED should_quit
       ELSE should_quit' = TRUE /\ UNCHANGED app_state
    /\ UNCHANGED <<app_bookmarks, scanned_count, dead_links, upgraded_links>>
    /\ UNCHANGED <<probe_vars, scan_vars, parse_vars, rewrite_vars>>

\* mutant: the map keeps the last entry only
MapInsertOnly(m, k, v) == [x \in {k} |-> v]

\* HashMap::insert
MapInsert(m, k, v) ==
    [x \in DOMAIN m \cup {k} |-> IF x = k THEN v ELSE m[x]]

\* rx.try_recv() yields a pair: one pass of the body of the while loop
MainRecv ==
    /\ main_pc = "drain"
    /\ rx_alive
    /\ chan # <<>>
    /\ LET index == Head(chan)[1]
           st == Head(chan)[2]
       IN  /\ chan' = Tail(chan)
           /\ scanned_count' = scanned_count + 1
           /\ IF st.tag = "Dead"
              THEN /\ dead_links' = Append(dead_links, <<index, st.reason>>)
                   /\ UNCHANGED <<app_bookmarks, upgraded_links>>
              ELSE IF st.tag = "Upgraded" /\ index < Len(app_bookmarks)
              THEN /\ app_bookmarks' =
                          [app_bookmarks EXCEPT ![index + 1] = st.url]
                   /\ upgraded_links' =
                          MapInsert(upgraded_links, app_bookmarks[index + 1],
                                    st.url)
                   /\ UNCHANGED dead_links
              ELSE UNCHANGED <<app_bookmarks, dead_links, upgraded_links>>
    /\ UNCHANGED <<main_pc, app_state, should_quit>>
    /\ UNCHANGED <<bookmarks, concurrent_requests, retries, permits, scan_pc,
                   next_index, join_index, task, task_status, task_net, observed,
                   rx_alive, tx_dropped, sent>>
    /\ UNCHANGED <<probe_vars, parse_vars, rewrite_vars>>

\* mutant: the finished check does not look at the count
MainDrainedUncounted ==
    /\ main_pc = "drain"
    /\ chan = <<>>
    /\ app_state' = IF app_state = "Scanning" THEN "Finished" ELSE app_state
    /\ main_pc' = IF should_quit THEN "exited" ELSE "poll"
    /\ UNCHANGED <<app_bookmarks, should_quit, scanned_count, dead_links,
                   upgraded_links>>
    /\ UNCHANGED <<probe_vars, scan_vars, parse_vars, rewrite_vars>>

\* rx.try_recv() yields nothing: the finished check, then the quit check
MainDrained ==
    /\ main_pc = "drain"
    /\ chan = <<>>
    /\ app_state' = IF scanned_count >= total_bookmarks /\ app_state = "Scanning"
                    THEN "Finished" ELSE app_state
    /\ main_pc' = IF should_quit THEN "exited" ELSE "poll"
    /\ UNCHANGED <<app_bookmarks, should_quit, scanned_count, dead_links,
                   upgraded_links>>
    /\ UNCHANGED <<probe_vars, scan_vars, parse_vars, rewrite_vars>>

\* terminal.draw, poll or read fails: main leaves the loop by `?`
MainIoError ==
    /\ main_pc = "poll"
    /\ main_pc' = "exited"
    /\ UNCHANGED <<app_bookmarks, app_state, should_quit, scanned_count,
                   dead_links, upgraded_links>>
    /\ UNCHANGED <<probe_vars, scan_vars, parse_vars, rewrite_vars>>

\* main returns: rx is dropped with whatever the channel still holds
MainReturn ==
    /\ main_pc = "exited"
    /\ main_pc' = "returned"
    /\ rx_alive' = FALSE
    /\ chan' = <<>>
    /\ UNCHANGED <<bookmarks, concurrent_requests, retries, permits, scan_pc,
                   next_index, join_index, task, task_status, task_net, observed,
                   tx_dropped, sent>>
    /\ UNCHANGED <<app_bookmarks, app_state, should_quit, scanned_count,
                   dead_links, upgraded_links>>
    /\ UNCHANGED <<probe_vars, parse_vars, rewrite_vars>>

\* the runtime of #[tokio::main] is dropped after main returned: every task
\* that has not ended is dropped at its await point, with what it holds
\* (taken as one step: nothing is spawned or sent once the shutdown began)
RuntimeShutdown ==
    /\ main_pc = "returned"
    /\ main_pc' = "shutdown"
    /\ task' = [i \in Records |->
                   IF task[i] \in {"probing", "sending"} THEN "cancelled"
                   ELSE task[i]]
    /\ permits' = permits + Cardinality({i \in Records : HoldsPermit(i)})
    /\ scan_pc' = IF scan_pc = "returned" THEN "returned" ELSE "cancelled"
    /\ tx_dropped' = TRUE
    /\ UNCHANGED <<bookmarks, concurrent_requests, retries, next_index,
                   join_index, task_status, task_net, observed, chan, rx_alive, sent>>
    /\ UNCHANGED <<app_bookmarks, app_state, should_quit, scanned_count,
                   dead_links, upgraded_links>>
    /\ UNCHANGED <<probe_vars, parse_vars, rewrite_vars>>

Next ==
    \/ ScanSpawn
    \/ \E i \in Records : TaskProbe(i)
    \/ \E i \in Records : TaskSend(i)
    \/ ScanJoin
    \/ ScanReturn
    \/ \E key \in Keys, write_ok \in BOOLEAN : MainPoll(key, write_ok)
    \/ MainRecv
    \/ MainDrained
    \/ MainIoError
    \/ MainReturn
    \/ RuntimeShutdown

Spec == Init /\ [][Next]_vars

\* -------------------------------------------------------------------------
\* IsolationSpec: the same scan with the responses of each record's requests
\* kept, and a consumer that keeps draining the channel
\* -------------------------------------------------------------------------
IsolationNext ==
    \/ ScanSpawn
    \/ \E i \in Records : TaskProbeTraced(i)
    \/ \E i \in Records : TaskSend(i)
    \/ ScanJoin
    \/ ScanReturn
    \/ MainPoll("none", TRUE)
    \/ MainRecv
    \/ MainDrained

\* as Init, with one record taken under observation
IsolationInit ==
    /\ ProbeIdle
    /\ RewriteIdle
    /\ ParseIdle
    /\ bookmarks \in RecordLists
    /\ concurrent_requests \in 0..MaxConcurrent
    /\ retries = 1  \* one retry: a run has up to four requests
    /\ permits = max_concurrent(concurrent_requests)
    /\ scan_pc = IF Len(bookmarks) = 0 THEN "join" ELSE "acquire"
    /\ next_index = 0
    /\ join_index = 0
    /\ task = [i \in Records |-> "none"]
    /\ task_status = [i \in Records |-> NoStatus]
    /\ task_net = [i \in Records |-> <<>>]
    /\ \E i \in Records : observed = {i}
    /\ chan = <<>>
    /\ rx_alive = TRUE
    /\ tx_dropped = FALSE
    /\ sent = [i \in Records |-> 0]
    /\ main_pc = "poll"
    /\ app_bookmarks = bookmarks
    /\ app_state = "Scanning"
    /\ should_quit = FALSE
    /\ scanned_count = 0
    /\ dead_links = <<>>
    /\ upgraded_links = <<>>

IsolationSpec == IsolationInit /\ [][IsolationNext]_vars

\* -------------------------------------------------------------------------
\* LiveSpec: the scan with a consumer that keeps draining, under fair
\* scheduling: the runtime runs every task that can take a step (the function
\* scan_bookmarks, the task of each record, whose requests all end, and the
\* loop of main)
\* -------------------------------------------------------------------------
ScanSteps == ScanSpawn \/ ScanJoin \/ ScanReturn
TaskSteps(i) == i \in Records /\ (TaskProbeTraced(i) \/ TaskSend(i))
MainSteps == MainPoll("none", TRUE) \/ MainRecv \/ MainDrained

Fairness ==
    /\ WF_vars(ScanSteps)
    /\ \A i \in 1..MaxRecords : WF_vars(TaskSteps(i))
    /\ WF_vars(MainSteps)

LiveSpec == Init /\ [][IsolationNext]_vars /\ Fairness

\* =========================================================================
\* The parser: parse_html, walk_dom, should_skip
\* =========================================================================
\* ------------------------------------------------------------ the document
\* an element of the tree Html::parse_document built; text is the text of its
\* text children, trimmed and joined, href its HREF attribute
Element(name, text, href, children) ==
    [name |-> name, text |-> text, href |-> href, children |-> children]

\* the elements walk_dom recurses into, and dd for every element it does not
\* name (html5ever puts what follows a <DD> inside it)
Containers == {"dt", "dl", "p", "dd"}
FolderNames == {"F", "f"}

\* the elements without element children: a link, a heading, an empty
\* folder body (a dt, p or dd without children changes nothing in the walk)
Childless ==
    {Element("a", "", U_http, <<>>)}
        \cup {Element("h3", n, <<>>, <<>>) : n \in FolderNames}
        \cup {Element("dl", "", <<>>, <<>>)}

RECURSIVE Forests(_)
RECURSIVE Trees(_)
\* the trees of exactly n elements
Trees(n) ==
    IF n = 1 THEN Childless
    ELSE {Element(c, "", <<>>, kids) : c \in Containers, kids \in Forests(n - 1)}

\* the sequences of trees of exactly n elements in all
Forests(n) ==
    IF n = 0 THEN {<<>>}
    ELSE UNION { {<<t>> \o rest : t \in Trees(k), rest \in Forests(n - k)}
                 : k \in 1..n }

Documents == UNION {Forests(n) : n \in 0..MaxNodes}

ExcludeSets == {{}, {"F"}}

\* ------------------------------------------------------------- should_skip
InPath(folder_path, name) == \E k \in DOMAIN folder_path : folder_path[k] = name

\* mutant: names are compared without regard to case
PathExcludedIgnoreCase(folder_path, excluded) ==
    \E x \in excluded, k \in DOMAIN folder_path :
        folder_path[k] \in {x, IF x = "F" THEN "f" ELSE "F"}

\* 1. Check folders
PathExcluded(folder_path, excluded) ==
    \E x \in excluded : InPath(folder_path, x)

\* -------------------------------------------------------------- Url::parse
UPPER ==
    <<"A", "B", "C", "D", "E", "F", "G", "H", "I", "J", "K", "L", "M", "N",
      "O", "P", "Q", "R", "S", "T", "U", "V", "W", "X", "Y", "Z">>
LOWER ==
    <<"a", "b", "c", "d", "e", "f", "g", "h", "i", "j", "k", "l", "m", "n",
      "o", "p", "q", "r", "s", "t", "u", "v", "w", "x", "y", "z">>
DIGITS == <<"0", "1", "2", "3", "4", "5", "6", "7", "8", "9">>

InSeq(c, alphabet) == \E k \in DOMAIN alphabet : alphabet[k] = c
IsLetter(c) == InSeq(c, UPPER) \/ InSeq(c, LOWER)
IsDigit(c) == InSeq(c, DIGITS)
DigitValue(c) == (CHOOSE k \in DOMAIN DIGITS : DIGITS[k] = c) - 1

LowerText(s) == [k \in DOMAIN s |-> ToLower(s[k])]

EndsWith(s, p) ==
    Len(s) >= Len(p) /\ SubSeq(s, Len(s) - Len(p) + 1, Len(s)) = p

\* the position of the first character of s that is in stops, Len(s) + 1 if
\* there is none
FirstOf(s, stops) ==
    IF \E k \in DOMAIN s : s[k] \in stops
    THEN CHOOSE k \in DOMAIN s :
            s[k] \in stops /\ \A j \in 1..(k - 1) : s[j] \notin stops
    ELSE Len(s) + 1

TakeUntil(s, stops) == SubSeq(s, 1, FirstOf(s, stops) - 1)
DropUntil(s, stops) == SubSeq(s, FirstOf(s, stops) + 1, Len(s))

RECURSIVE StripSlashes(_)
StripSlashes(s) ==
    IF s # <<>> /\ Head(s) \in {"/", "\\"} THEN StripSlashes(Tail(s)) ELSE s

RECURSIVE Split(_, _)
\* str::split on one character
Split(s, sep) ==
    IF FirstOf(s, {sep}) > Len(s) THEN <<s>>
    ELSE <<TakeUntil(s, {sep})>> \o Split(DropUntil(s, {sep}), sep)

RECURSIVE DecimalValue(_)
DecimalValue(s) ==
    IF s = <<>> THEN 0
    ELSE 10 * DecimalValue(SubSeq(s, 1, Len(s) - 1)) + DigitValue(s[Len(s)])

\* str::parse::<u8>: decimal digits, an optional sign +, at most 255
ParseU8(s) ==
    LET digits == IF s # <<>> /\ Head(s) = "+" THEN Tail(s) ELSE s
    IN  IF digits # <<>> /\ (\A k \in DOMAIN digits : IsDigit(digits[k]))
           /\ DecimalValue(digits) <= 255
        THEN [ok |-> TRUE, value |-> DecimalValue(digits)]
        ELSE [ok |-> FALSE, value |-> 0]

SpecialSchemes ==
    {HTTP, HTTP \o <<"s">>, <<"f", "t", "p">>, <<"w", "s">>, <<"w", "s", "s">>}

ParseError == [ok |-> FALSE, host |-> <<>>]
Parsed(host) == [ok |-> TRUE, host |-> host]

\* the host and the port of an authority, the userinfo left out
HostPort(authority) ==
    IF \E k \in DOMAIN authority : authority[k] = "@"
    THEN SubSeq(authority,
                1 + CHOOSE k \in DOMAIN authority :
                        authority[k] = "@"
                        /\ \A j \in (k + 1)..Len(authority) : authority[j] # "@",
                Len(authority))
    ELSE authority

\* Url::parse as far as host_str() shows it: ok is FALSE for Err, host is
\* <<>> for None and <<h>> for Some(h).  A url without a scheme is relative
\* and fails; after a special scheme the slashes are optional, the host is
\* put in lower case and must not be empty; numeric hosts are taken in
\* dotted-decimal form, which the parser leaves as written.
ParseUrl(s) ==
    LET colon == FirstOf(s, {":"})
        scheme == LowerText(SubSeq(s, 1, colon - 1))
        rest == SubSeq(s, colon + 1, Len(s))
    IN  IF colon > Len(s) \/ scheme = <<>> \/ ~IsLetter(scheme[1])
           \/ \E k \in DOMAIN scheme :
                 ~(IsLetter(scheme[k]) \/ IsDigit(scheme[k])
                     \/ scheme[k] \in {"+", "-", "."})
        THEN ParseError
        ELSE IF scheme \in SpecialSchemes
        THEN LET authority ==
                     TakeUntil(StripSlashes(rest), {"/", "\\", "?", "#"})
                 hostport == HostPort(authority)
                 host == LowerText(TakeUntil(hostport, {":"}))
                 port == DropUntil(hostport, {":"})
             IN  IF host = <<>> \/ \E k \in DOMAIN port : ~IsDigit(port[k])
                 THEN ParseError
                 ELSE Parsed(<<host>>)
        ELSE IF StartsWith(rest, <<"/", "/">>)
        THEN LET authority ==
                     TakeUntil(SubSeq(rest, 3, Len(rest)), {"/", "?", "#"})
             IN  Parsed(<<TakeUntil(HostPort(authority), {":"})>>)
        ELSE Parsed(<<>>)

LOCALHOST ==
    <<"l", "o", "c", "a", "l", "h", "o", "s", "t">>
LOOPBACK ==
    <<"1", "2", "7", ".", "0", ".", "0", ".", "1">>
PREFIX_192_168 ==
    <<"1", "9", "2", ".", "1", "6", "8", ".">>
PREFIX_10 ==
    <<"1", "0", ".">>
PREFIX_172 ==
    <<"1", "7", "2", ".">>
SUFFIX_LOCAL ==
    <<".", "l", "o", "c", "a", "l">>

\* 2. Check local: the tests made on host_str()
HostIsLocal(host) ==
    \/ host = LOCALHOST
    \/ host = LOOPBACK
    \/ StartsWith(host, PREFIX_192_168)
    \/ StartsWith(host, PREFIX_10)
    \/ /\ StartsWith(host, PREFIX_172)
       /\ LET parts == Split(host, ".")
          IN  /\ Len(parts) >= 2
              /\ ParseU8(parts[2]).ok
              /\ ParseU8(parts[2]).value \in 16..31
    \/ EndsWith(host, SUFFIX_LOCAL)

should_skip(url_str, folder_path, excluded, local_ignored) ==
    IF PathExcluded(folder_path, excluded) THEN TRUE
    ELSE IF local_ignored
    THEN LET parsed_url == ParseUrl(url_str)
         IN  IF parsed_url.ok /\ parsed_url.host # <<>>
             THEN HostIsLocal(parsed_url.host[1])
             ELSE FALSE
    ELSE FALSE

\* the urls should_skip is called on: those of test_ignore_local, then other
\* private and public addresses, names that begin like a private address,
\* and texts that do not parse or have no host
SkipURLS ==
    {
      \* http://localhost:8080
      <<"h", "t", "t", "p", ":", "/", "/", "l", "o", "c", "a", "l", "h",
        "o", "s", "t", ":", "8", "0", "8", "0">>,
      \* http://127.0.0.1/test
      <<"h", "t", "t", "p", ":", "/", "/", "1", "2", "7", ".", "0", ".",
        "0", ".", "1", "/", "t", "e", "s", "t">>,
      \* http://192.168.1.1
      <<"h", "t", "t", "p", ":", "/", "/", "1", "9", "2", ".", "1", "6",
        "8", ".", "1", ".", "1">>,
      \* http://10.0.0.1
      <<"h", "t", "t", "p", ":", "/", "/", "1", "0", ".", "0", ".", "0",
        ".", "1">>,
      \* http://172.16.0.1
      <<"h", "t", "t", "p", ":", "/", "/", "1", "7", "2", ".", "1", "6",
        ".", "0", ".", "1">>,
      \* http://172.31.255.255
      <<"h", "t", "t", "p", ":", "/", "/", "1", "7", "2", ".", "3", "1",
        ".", "2", "5", "5", ".", "2", "5", "5">>,
      \* http://172.32.0.1
      <<"h", "t", "t", "p", ":", "/", "/", "1", "7", "2", ".", "3", "2",
        ".", "0", ".", "1">>,
      \* http://172.15.0.1
      <<"h", "t", "t", "p", ":", "/", "/", "1", "7", "2", ".", "1", "5",
        ".", "0", ".", "1">>,
      \* http://google.com
      <<"h", "t", "t", "p", ":", "/", "/", "g", "o", "o", "g", "l", "e",
        ".", "c", "o", "m">>,
      \* http://8.8.8.8/
      <<"h", "t", "t", "p", ":", "/", "/", "8", ".", "8", ".", "8", ".",
        "8", "/">>,
      \* https://nas.local/x
      <<"h", "t", "t", "p", "s", ":", "/", "/", "n", "a", "s", ".", "l",
        "o", "c", "a", "l", "/", "x">>,
      \* HTTP://LOCALHOST/
      <<"H", "T", "T", "P", ":", "/", "/", "L", "O", "C", "A", "L", "H",
        "O", "S", "T", "/">>,
      \* http://10.example.com/
      <<"h", "t", "t", "p", ":", "/", "/", "1", "0", ".", "e", "x", "a",
        "m", "p", "l", "e", ".", "c", "o", "m", "/">>,
      \* http://172.20.example.com/
      <<"h", "t", "t", "p", ":", "/", "/", "1", "7", "2", ".", "2", "0",
        ".", "e", "x", "a", "m", "p", "l", "e", ".", "c", "o", "m", "/">>,
      \* http://192.168.example.com/
      <<"h", "t", "t", "p", ":", "/", "/", "1", "9", "2", ".", "1", "6",
        "8", ".", "e", "x", "a", "m", "p", "l", "e", ".", "c", "o", "m",
        "/">>,
      \* not a url
      <<"n", "o", "t", " ", "a", " ", "u", "r", "l">>,
      \* (the empty text)
      <<>>,
      \* http://
      <<"h", "t", "t", "p", ":", "/", "/">>,
      \* mailto:a@nas.local
      <<"m", "a", "i", "l", "t", "o", ":", "a", "@", "n", "a", "s", ".",
        "l", "o", "c", "a", "l">>,
      \* //localhost/x
      <<"/", "/", "l", "o", "c", "a", "l", "h", "o", "s", "t", "/", "x">>
    }

\* ---------------------------------------------------------------- walk_dom
\* Option<String>: None, Some(name); from is history, the place of the h3
None == <<>>
Some(name, from) == <<[name |-> name, from |-> from]>>

\* history of the walk: a call or return of walk_dom on the element at `at`,
\* a push of a folder name for the dl at `at`, a link met at `at`
Event(ev, at, path, name, from, skipped) ==
    [ev |-> ev, at |-> at, path |-> path, name |-> name, from |-> from,
     skipped |-> skipped]

\* a Bookmark; at is history, the place of its link in the document
Bookmark(url, folder_path, at) ==
    [url |-> url, folder_path |-> folder_path, at |-> at]

\* mutant: the record is put in front of the list
PushFront(list, record) == <<record>> \o list

\* bookmarks.push
Push(list, record) == Append(list, record)

\* mutant: the name stays on the stack
PopNothing(path) == path

\* current_path.pop
Pop(path) == SubSeq(path, 1, Len(path) - 1)

Logged(w, e) == [w EXCEPT !.log = Append(@, e)]

\* the h3 a dt holds directly: the first one, or None
PeekH3(kids, at) ==
    IF \E k \in DOMAIN kids : kids[k].name = "h3"
    THEN LET k == CHOOSE k \in DOMAIN kids :
                     /\ kids[k].name = "h3"
                     /\ \A j \in 1..(k - 1) : kids[j].name # "h3"
         IN  Some(kids[k].text, Append(at, k))
    ELSE None

\* the branch for an a element
OnLink(el, here, w, excluded, local_ignored) ==
    LET skip == should_skip(el.href, w.current_path, excluded, local_ignored)
        seen == Logged(w, Event("link", here, w.current_path, "", <<>>, skip))
    IN  IF skip THEN seen
        ELSE [seen EXCEPT
                !.bookmarks = Push(@, Bookmark(el.href, w.current_path, here))]

RECURSIVE walk_dom(_, _, _, _, _)
RECURSIVE walk_children(_, _, _, _, _, _, _)
\* the for loop of walk_dom from child k on; w holds current_path, bookmarks
\* and the history
walk_children(kids, k, at, last_folder_name, w, excluded, local_ignored) ==
    IF k > Len(kids) THEN w
    ELSE
    LET el == kids[k]
        here == Append(at, k)
    IN  CASE el.name = "h3" ->
               walk_children(kids, k + 1, at, Some(el.text, here), w,
                             excluded, local_ignored)
          [] el.name = "dt" ->
               walk_children(kids, k + 1, at,
                   IF PeekH3(el.children, here) # None
                   THEN PeekH3(el.children, here) ELSE last_folder_name,
                   walk_dom(el.children, here, w, excluded, local_ignored),
                   excluded, local_ignored)
          [] el.name = "a" ->
               walk_children(kids, k + 1, at, last_folder_name,
                   OnLink(el, here, w, excluded, local_ignored),
                   excluded, local_ignored)
          [] el.name = "dl" ->
               IF last_folder_name # None
               THEN LET folder == last_folder_name[1]
                        pushed ==
                            Logged([w EXCEPT !.current_path =
                                                Append(@, folder.name)],
                                   Event("push", here, w.current_path,
                                         folder.name, folder.from, FALSE))
                        walked == walk_dom(el.children, here, pushed,
                                           excluded, local_ignored)
                    IN  walk_children(kids, k + 1, at, None,
                            [walked EXCEPT !.current_path = Pop(@)],
                            excluded, local_ignored)
               ELSE walk_children(kids, k + 1, at, None,
                        walk_dom(el.children, here, w, excluded, local_ignored),
                        excluded, local_ignored)
          [] el.name = "p" ->
               walk_children(kids, k + 1, at, last_folder_name,
                   walk_dom(el.children, here, w, excluded, local_ignored),
                   excluded, local_ignored)
          [] OTHER ->
               walk_children(kids, k + 1, at, last_folder_name, w,
                             excluded, local_ignored)

\* walk_dom on the element at `at`, whose children are kids
walk_dom(kids, at, w, excluded, local_ignored) ==
    LET entered == Logged(w, Event("call", at, w.current_path, "", <<>>, FALSE))
        left == walk_children(kids, 1, at, None, entered, excluded,
                              local_ignored)
    IN  Logged(left, Event("ret", at, left.current_path, "", <<>>, FALSE))

\* parse_html: the walk from <body>, which every parsed document has
parse_html(doc, excluded, local_ignored) ==
    walk_dom(doc, <<>>, [current_path |-> <<>>, bookmarks |-> <<>>, log |-> <<>>],
             excluded, local_ignored)

\* --------------------------------------------- ParseSpec: one parse_html call
NoCall ==
    /\ skip_url = <<>> /\ skip_path = <<>> /\ skip_pc = "idle"
    /\ skip_result = FALSE

ParseInit ==
    /\ ProbeIdle
    /\ RewriteIdle
    /\ ScanIdle
    /\ NoCall
    /\ document \in Documents
    /\ exclude_folders \in ExcludeSets
    /\ ignore_local = FALSE
    /\ parse_pc = "start"
    /\ parsed = <<>>

ParseHtml ==
    /\ parse_pc = "start"
    /\ parse_pc' = "done"
    /\ parsed' = parse_html(document, exclude_folders, ignore_local)
    /\ UNCHANGED <<exclude_folders, ignore_local, document, skip_url,
                   skip_path, skip_pc, skip_result>>
    /\ UNCHANGED <<probe_vars, scan_vars, main_vars, rewrite_vars>>

ParseSpec == ParseInit /\ [][ParseHtml]_vars

\* ------------------------------------------- SkipSpec: one should_skip call
SkipPaths == {<<>>, <<"f">>, <<"F">>, <<"f", "F">>}

SkipInit ==
    /\ ProbeIdle
    /\ RewriteIdle
    /\ ScanIdle
    /\ document = <<>> /\ parse_pc = "idle" /\ parsed = <<>>
    /\ exclude_folders \in ExcludeSets
    /\ ignore_local \in BOOLEAN
    /\ skip_url \in SkipURLS
    /\ skip_path \in SkipPaths
    /\ skip_pc = "start"
    /\ skip_result = FALSE

ShouldSkip ==
    /\ skip_pc = "start"
    /\ skip_pc' = "done"
    /\ skip_result' =
          should_skip(skip_url, skip_path, exclude_folders, ignore_local)
    /\ UNCHANGED <<exclude_folders, ignore_local, document, parse_pc, parsed,
                   skip_url, skip_path>>
    /\ UNCHANGED <<probe_vars, scan_vars, main_vars, rewrite_vars>>

SkipSpec == SkipInit /\ [][ShouldSkip]_vars

\* =========================================================================
\* The rewriter: process_bookmarks and extract_href
\* =========================================================================
LF == "\n"
CR == "\r"
Whitespace == {" ", "\t", LF, CR}

\* Option<String>: <<>> for None, <<v>> for Some(v)
OptionOf(v) == <<v>>

\* str::lines: the text is cut after every "\n"; a piece loses its "\n" and,
\* only if it had one, one "\r" before it; no line follows the last "\n"
Lines(text) ==
    LET pieces == Split(text, LF)
        n == Len(pieces)
        kept == IF pieces[n] = <<>> THEN n - 1 ELSE n
    IN  [k \in 1..kept |->
            IF k < n /\ EndsWith(pieces[k], <<CR>>)
            THEN SubSeq(pieces[k], 1, Len(pieces[k]) - 1)
            ELSE pieces[k]]

RECURSIVE TrimStart(_)
TrimStart(s) ==
    IF s # <<>> /\ Head(s) \in Whitespace THEN TrimStart(Tail(s)) ELSE s

RECURSIVE TrimEnd(_)
TrimEnd(s) ==
    IF s # <<>> /\ s[Len(s)] \in Whitespace
    THEN TrimEnd(SubSeq(s, 1, Len(s) - 1)) ELSE s

\* str::trim
Trim(s) == TrimEnd(TrimStart(s))

\* str::contains
Contains(s, p) ==
    \E k \in 0..(Len(s) - Len(p)) : SubSeq(s, k + 1, k + Len(p)) = p

\* str::find: the offset of the first match, counted from 0
Find(s, p) ==
    CHOOSE k \in 0..(Len(s) - Len(p)) :
        /\ SubSeq(s, k + 1, k + Len(p)) = p
        /\ \A j \in 0..(k - 1) : SubSeq(s, j + 1, j + Len(p)) # p

RECURSIVE Join(_, _)
\* [String]::join
Join(lines, sep) ==
    IF lines = <<>> THEN <<>>
    ELSE IF Len(lines) = 1 THEN lines[1]
    ELSE lines[1] \o sep \o Join(Tail(lines), sep)

HREF_PAT == <<"h", "r", "e", "f", "=">>
LINK_TOKEN == <<"<", "a">>

\* extract_href
extract_href(line) ==
    LET lower == LowerText(line)
    IN  IF ~Contains(lower, HREF_PAT) THEN <<>>
        ELSE
        LET idx == Find(lower, HREF_PAT)
            rest == SubSeq(line, idx + Len(HREF_PAT) + 1, Len(line))
            value == TrimStart(rest)  \* from first_char on
        IN  IF value = <<>> THEN <<>>
            ELSE IF Head(value) \in {"\"", "'"}
            THEN OptionOf(TakeUntil(Tail(value), {Head(value)}))
            ELSE OptionOf(<<Head(value)>>
                            \o TakeUntil(Tail(value), Whitespace \cup {">"}))

\* mutant: the href is extracted from every line
LineUrlAnyLine(line) == extract_href(Trim(line))

\* the url the loop of process_bookmarks gets for a line: Some only if the
\* trimmed line holds "<a" in any case and extract_href finds a value
LineUrl(line) ==
    LET trimmed == Trim(line)
    IN  IF Contains(LowerText(trimmed), LINK_TOKEN)
        THEN extract_href(trimmed) ELSE <<>>

\* mutant: the upgrade is looked up before the removal
LineActionUpgradeFirst(url, remove, upgrades) ==
    IF url # <<>> /\ url[1] \in DOMAIN upgrades THEN "replace"
    ELSE IF url # <<>> /\ url[1] \in remove THEN "drop"
    ELSE "keep"

\* what the loop does with a line whose url is the given Option
LineAction(url, remove, upgrades) ==
    IF url # <<>> /\ url[1] \in remove THEN "drop"
    ELSE IF url # <<>> /\ url[1] \in DOMAIN upgrades THEN "replace"
    ELSE "keep"

RECURSIVE RewriteLines(_, _, _)
\* the loop over original_html.lines(): the value of new_lines after it
RewriteLines(lines, remove, upgrades) ==
    IF lines = <<>> THEN <<>>
    ELSE
    LET line == Head(lines)
        url == LineUrl(line)
        act == LineAction(url, remove, upgrades)
        rest == RewriteLines(Tail(lines), remove, upgrades)
    IN  CASE act = "drop" -> rest
          [] act = "replace" ->
               <<Replace(line, url[1], upgrades[url[1]])>> \o rest
          [] OTHER -> <<line>> \o rest

\* HashMap<String, String>: the empty map and the map with one entry
NoUpgrades == <<>>
OneUpgrade(old_url, new_url) == [u \in {old_url} |-> new_url]

\* ------------------------------- RewriteSpec: one pass of the rewriting loop
MaxLines == 2

\* the lines a text is made of: a link, a link whose title is its url, a
\* link in lower case, indented and quoted by ', a line of other markup,
\* the empty line, the second line of a link tag cut after <A, and a link
\* tag without href
RewriteLineSet ==
    {
      \* <DT><A HREF="http://a">x</A>
      <<"<", "D", "T", ">", "<", "A", " ", "H", "R", "E", "F", "=", "\"",
        "h", "t", "t", "p", ":", "/", "/", "a", "\"", ">", "x", "<", "/",
        "A", ">">>,
      \* <DT><A HREF="http://a">http://a</A>
      <<"<", "D", "T", ">", "<", "A", " ", "H", "R", "E", "F", "=", "\"",
        "h", "t", "t", "p", ":", "/", "/", "a", "\"", ">", "h", "t", "t",
        "p", ":", "/", "/", "a", "<", "/", "A", ">">>,
      \*   <dt><a href='https://a'>y</a>
      <<" ", " ", "<", "d", "t", ">", "<", "a", " ", "h", "r", "e", "f",
        "=", "'", "h", "t", "t", "p", "s", ":", "/", "/", "a", "'", ">",
        "y", "<", "/", "a", ">">>,
      \* <DL><p>
      <<"<", "D", "L", ">", "<", "p", ">">>,
      \* (the empty line)
      <<>>,
      \* HREF="http://a">x</A>
      <<"H", "R", "E", "F", "=", "\"", "h", "t", "t", "p", ":", "/", "/",
        "a", "\"", ">", "x", "<", "/", "A", ">">>,
      \* <A>x</A>
      <<"<", "A", ">", "x", "<", "/", "A", ">">>
    }

LineEnds == {<<LF>>, <<CR, LF>>}

RECURSIVE TextsOf(_)
\* the texts of exactly n lines, each ended by "\n" or "\r\n", the last one
\* also by nothing
TextsOf(n) ==
    IF n = 0 THEN {<<>>}
    ELSE IF n = 1
    THEN {l \o e : l \in RewriteLineSet, e \in LineEnds \cup {<<>>}}
    ELSE {l \o e \o t : l \in RewriteLineSet, e \in LineEnds, t \in TextsOf(n - 1)}

Texts == UNION {TextsOf(n) : n \in 0..MaxLines}

RemovalSets == SUBSET {U_http, U_https}
UpgradeMaps == {NoUpgrades, OneUpgrade(U_http, U_https)}

RewriteInit ==
    /\ ProbeIdle
    /\ ScanIdle
    /\ ParseIdle
    /\ original_html \in Texts
    /\ urls_to_remove \in RemovalSets
    /\ upgraded \in UpgradeMaps
    /\ new_lines = <<>>
    /\ cleaned_content = <<>>
    /\ rewrite_pc = "start"
    /\ bookmarks_to_keep = {} /\ list_state = 0
    /\ link_line = <<>> /\ link_pc = "idle" /\ link_url = <<>>
    /\ link_href = <<>>

\* process_bookmarks from `let mut new_lines` to its return
RewriteCall ==
    /\ rewrite_pc = "start"
    /\ rewrite_pc' = "done"
    /\ new_lines' = RewriteLines(Lines(original_html), urls_to_remove, upgraded)
    /\ cleaned_content' = Join(new_lines', <<LF>>)
    /\ UNCHANGED <<original_html, urls_to_remove, upgraded, bookmarks_to_keep,
                   list_state, link_line, link_pc, link_url, link_href>>
    /\ UNCHANGED <<probe_vars, scan_vars, main_vars, parse_vars>>

RewriteSpec == RewriteInit /\ [][RewriteCall]_vars

\* ------------------------------------ the href of a link, as the parser has it
AMP_REF == <<"&", "a", "m", "p", ";">>

\* the character references of an attribute value decoded (of all the named
\* and numeric references only &amp; occurs in the lines considered)
DecodeReferences(value) == Replace(value, AMP_REF, <<"&">>)

TagNameEnds == Whitespace \cup {"/", ">"}

\* the offset of the first start tag named a, in any case: "<a" followed by
\* the end of a tag name
FindAnchor(line) ==
    LET lower == LowerText(line)
        IsAnchor(k) ==
            /\ SubSeq(lower, k + 1, k + 2) = LINK_TOKEN
            /\ k + 3 <= Len(lower)
            /\ lower[k + 3] \in TagNameEnds
    IN  IF \E k \in 0..(Len(lower) - 3) : IsAnchor(k)
        THEN CHOOSE k \in 0..(Len(lower) - 3) :
                IsAnchor(k) /\ \A j \in 0..(k - 1) : ~IsAnchor(j)
        ELSE Len(line)

RECURSIVE AttrHref(_)
\* the tokenizer from the end of the tag name on, attribute by attribute:
\* Some(value) for the first attribute named href in any case, None if the
\* tag has none.  A name ends at white space, "/", ">" or "="; white space
\* may stand on both sides of "="; a value is quoted by " or ', or runs to
\* white space or ">"
AttrHref(s) ==
    LET t == TrimStart(s)
    IN  IF t = <<>> \/ Head(t) = ">" THEN <<>>
        ELSE IF Head(t) = "/" THEN AttrHref(Tail(t))
        ELSE
        LET name == <<Head(t)>> \o TakeUntil(Tail(t), TagNameEnds \cup {"="})
            after == TrimStart(SubSeq(t, Len(name) + 1, Len(t)))
            is_href == LowerText(name) = <<"h", "r", "e", "f">>
        IN  IF after # <<>> /\ Head(after) = "="
            THEN LET v == TrimStart(Tail(after))
                     quoted == v # <<>> /\ Head(v) \in {"\"", "'"}
                     value ==
                         IF v = <<>> \/ Head(v) = ">" THEN <<>>
                         ELSE IF quoted THEN TakeUntil(Tail(v), {Head(v)})
                         ELSE TakeUntil(v, Whitespace \cup {">"})
                     rest ==
                         IF quoted THEN DropUntil(Tail(v), {Head(v)})
                         ELSE SubSeq(v, Len(value) + 1, Len(v))
                 IN  IF is_href THEN OptionOf(DecodeReferences(value))
                     ELSE AttrHref(rest)
            ELSE IF is_href THEN OptionOf(<<>>) ELSE AttrHref(after)

\* el.attr("href").unwrap_or("") for the first a element of the line
ParsedUrl(line) ==
    LET attr == AttrHref(SubSeq(line, FindAnchor(line) + 3, Len(line)))
    IN  IF attr = <<>> THEN <<>> ELSE attr[1]

\* ------------------- HrefSpec: the url of one link, by parser and by rewriter
\* a url with a query of two parameters, as an export writes it: http://a?b&amp;c
U_query ==
    <<"h", "t", "t", "p", ":", "/", "/", "a", "?", "b", "&", "a", "m", "p",
      ";", "c">>

Indents == {<<>>, <<" ", " ">>, <<"<", "D", "T", ">">>}
TagOpens == {<<"<", "A", " ">>, <<"<", "a", " ">>}
\* ADD_DATE="1" 
ADD_DATE ==
    <<"A", "D", "D", "_", "D", "A", "T", "E", "=", "\"", "1", "\"", " ">>
HrefKeys == {<<"H", "R", "E", "F">>, <<"h", "r", "e", "f">>}
Equals == {<<"=">>, <<" ", "=", " ">>}
Quotes == {<<"\"">>, <<"'">>, <<>>}
LinkUrls == {U_http, U_https, U_query}
\* >x</A>
TAG_CLOSE ==
    <<">", "x", "<", "/", "A", ">">>
\* a link without href: <DT><A NAME="a">x</A>
NO_HREF ==
    <<"<", "D", "T", ">", "<", "A", " ", "N", "A", "M", "E", "=", "\"", "a",
      "\"", ">", "x", "<", "/", "A", ">">>

\* the lines holding one link each
LinkLines ==
    {i \o o \o d \o k \o e \o q \o u \o q \o TAG_CLOSE :
        i \in Indents, o \in TagOpens, d \in {<<>>, ADD_DATE}, k \in HrefKeys,
        e \in Equals, q \in Quotes, u \in LinkUrls}
      \cup {NO_HREF}

HrefInit ==
    /\ ProbeIdle
    /\ ScanIdle
    /\ ParseIdle
    /\ original_html = <<>> /\ urls_to_remove = {} /\ upgraded = <<>>
    /\ new_lines = <<>> /\ cleaned_content = <<>> /\ rewrite_pc = "idle"
    /\ bookmarks_to_keep = {} /\ list_state = 0
    /\ link_line \in LinkLines
    /\ link_pc = "start"
    /\ link_url = <<>>
    /\ link_href = <<>>

\* the parser stores the url of the link; the rewriter extracts the href of
\* the line
HrefBoth ==
    /\ link_pc = "start"
    /\ link_pc' = "done"
    /\ link_url' = ParsedUrl(link_line)
    /\ link_href' = extract_href(Trim(link_line))
    /\ UNCHANGED <<original_html, urls_to_remove, upgraded, new_lines,
                   cleaned_content, rewrite_pc, bookmarks_to_keep, list_state,
                   link_line>>
    /\ UNCHANGED <<probe_vars, scan_vars, main_vars, parse_vars>>

HrefSpec == HrefInit /\ [][HrefBoth]_vars

\* ----------------- ReviewSpec: the key handler, the consumer loop and the save
\* HashSet::contains on a Vec index
DeadIndices(dead) == {dead[k][1] : k \in DOMAIN dead}

\* mutant: the keep set is not looked at
UrlsToRemoveAllDead(dead, keep, bms) ==
    {bms[idx + 1] : idx \in {x \in DeadIndices(dead) : x < Len(bms)}}

\* process_bookmarks: urls_to_remove, from app.dead_links,
\* app.bookmarks_to_keep and app.bookmarks
UrlsToRemove(dead, keep, bms) ==
    {bms[idx + 1] :
        idx \in {x \in DeadIndices(dead) : x \notin keep /\ x < Len(bms)}}

\* process_bookmarks: the lines pushed and the text returned
process_bookmarks(text, dead, keep, bms, upgrades) ==
    LET pushed == RewriteLines(Lines(text), UrlsToRemove(dead, keep, bms),
                               upgrades)
    IN  [new_lines |-> pushed, content |-> Join(pushed, <<LF>>)]

\* mutant: next does not wrap
AppNextNoWrap(selected, dead) ==
    IF dead = <<>> THEN selected ELSE selected + 1

\* App::next
AppNext(selected, dead) ==
    IF dead = <<>> THEN selected
    ELSE IF selected >= Len(dead) - 1 THEN 0 ELSE selected + 1

\* App::previous
AppPrevious(selected, dead) ==
    IF dead = <<>> THEN selected
    ELSE IF selected = 0 THEN Len(dead) - 1 ELSE selected - 1

\* mutant: the position in the list is taken for the index of the record
ToggleSelectionByPosition(selected, dead, keep) ==
    IF selected < Len(dead)
    THEN IF selected \in keep THEN keep \ {selected}
         ELSE keep \cup {selected}
    ELSE keep

\* App::toggle_selection
ToggleSelection(selected, dead, keep) ==
    IF selected < Len(dead)
    THEN LET bookmark_idx == dead[selected + 1][1]
         IN  IF bookmark_idx \in keep THEN keep \ {bookmark_idx}
             ELSE keep \cup {bookmark_idx}
    ELSE keep

\* App::select_all
SelectAll(dead, keep) == keep \cup DeadIndices(dead)

\* App::deselect_all
DeselectAll == {}

\* <DT><A HREF="
LINE_OPEN ==
    <<"<", "D", "T", ">", "<", "A", " ", "H", "R", "E", "F", "=", "\"">>
\* ">
LINE_MID ==
    <<"\"", ">">>
\* </A>
LINE_CLOSE ==
    <<"<", "/", "A", ">">>

\* the line of the k-th link of an export: its url, and k as its title
ReviewLine(url, k) ==
    LINE_OPEN \o url \o LINE_MID \o <<DIGITS[k + 1]>> \o LINE_CLOSE

ReviewURLS == {U_http, U_https}

\* the export with one link per line, each line ended by "\n"
ReviewText(urls) ==
    Join([k \in DOMAIN urls |-> ReviewLine(urls[k], k) \o <<LF>>], <<>>)

ReviewKeys == {"none", "q", "Down", "Up", "Space", "k", "d", "Enter"}

\* main up to the spawn of the scanner, for an export of one link per line:
\* parse_file gives one record per line, nothing being excluded
ReviewInit ==
    /\ ProbeIdle
    /\ ParseIdle
    /\ \E urls \in UNION {[1..n -> ReviewURLS] : n \in 0..MaxRecords} :
          /\ original_html = ReviewText(urls)
          /\ bookmarks = [k \in DOMAIN urls |->
                             ParsedUrl(Lines(original_html)[k])]
    /\ concurrent_requests = 1
    /\ retries = 0
    /\ permits = 1
    /\ scan_pc = "acquire"
    /\ next_index = 0
    /\ join_index = 0
    /\ task = [i \in Records |-> "none"]
    /\ task_status = [i \in Records |-> NoStatus]
    /\ task_net = [i \in Records |-> <<>>]
    /\ observed = {}
    /\ chan = <<>>
    /\ rx_alive = TRUE
    /\ tx_dropped = FALSE
    /\ sent = [i \in Records |-> 0]
    /\ main_pc = "poll"
    /\ app_bookmarks = bookmarks
    /\ app_state = "Scanning"
    /\ should_quit = FALSE
    /\ scanned_count = 0
    /\ dead_links = <<>>
    /\ upgraded_links = <<>>
    /\ urls_to_remove = {} /\ upgraded = <<>> /\ new_lines = <<>>
    /\ cleaned_content = <<>> /\ rewrite_pc = "start"
    /\ bookmarks_to_keep = {} /\ list_state = 0
    /\ link_line = <<>> /\ link_pc = "idle" /\ link_url = <<>>
    /\ link_href = <<>>

\* the scanner as the consumer sees it: the task of record i returns from
\* check_link_smart and its send puts the pair on the channel (the permits
\* and the handles are left out; each record's task does so once)
PairArrives(i) ==
    /\ task[i] = "none"
    /\ SendOutcome(Len(chan), rx_alive) = "queued"
    /\ \E st \in ScanOutcomes[ProbeUrl(i), retries] :
          /\ task_status' = [task_status EXCEPT ![i] = st]
          /\ chan' = Append(chan, <<i - 1, st>>)
    /\ task' = [task EXCEPT ![i] = "done"]
    /\ sent' = [sent EXCEPT ![i] = 1]
    /\ UNCHANGED <<bookmarks, concurrent_requests, retries, permits, scan_pc,
                   next_index, join_index, task_net, observed, rx_alive,
                   tx_dropped>>
    /\ UNCHANGED <<probe_vars, main_vars, parse_vars, rewrite_vars>>

\* Enter in the Finished state: the file is read, process_bookmarks is
\* called and the result is written, which succeeds or fails
Save(write_ok) ==
    LET result == process_bookmarks(original_html, dead_links,
                                    bookmarks_to_keep, app_bookmarks,
                                    upgraded_links)
    IN  /\ urls_to_remove' =
              UrlsToRemove(dead_links, bookmarks_to_keep, app_bookmarks)
        /\ upgraded' = upgraded_links
        /\ new_lines' = result.new_lines
        /\ cleaned_content' = result.content
        /\ rewrite_pc' = "done"
        /\ app_state' = IF write_ok THEN "Saved" ELSE "Error"

\* one pass of the loop up to the drain: no key event, or the key handler
MainKey(key, write_ok) ==
    /\ main_pc = "poll"
    /\ main_pc' = "drain"
    /\ IF key = "none"
       THEN UNCHANGED <<app_state, should_quit, bookmarks_to_keep, list_state,
                        urls_to_remove, upgraded, new_lines, cleaned_content,
                        rewrite_pc>>
       ELSE IF app_state \in {"Scanning", "Finished"}
       THEN IF key = "Enter" /\ app_state = "Finished"
            THEN /\ Save(write_ok)
                 /\ UNCHANGED <<should_quit, bookmarks_to_keep, list_state>>
            ELSE /\ should_quit' = (should_quit \/ key = "q")
                 /\ list_state' =
                       CASE key = "Down" -> AppNext(list_state, dead_links)
                         [] key = "Up" -> AppPrevious(list_state, dead_links)
                         [] OTHER -> list_state
                 /\ bookmarks_to_keep' =
                       CASE key = "Space" ->
                              ToggleSelection(list_state, dead_links,
                                              bookmarks_to_keep)
                         [] key = "k" -> SelectAll(dead_links, bookmarks_to_keep)
                         [] key = "d" -> DeselectAll
                         [] OTHER -> bookmarks_to_keep
                 /\ UNCHANGED <<app_state, urls_to_remove, upgraded, new_lines,
                                cleaned_content, rewrite_pc>>
       ELSE /\ should_quit' = TRUE
            /\ UNCHANGED <<app_state, bookmarks_to_keep, list_state,
                           urls_to_remove, upgraded, new_lines,
                           cleaned_content, rewrite_pc>>
    /\ UNCHANGED <<app_bookmarks, scanned_count, dead_links, upgraded_links>>
    /\ UNCHANGED <<original_html, link_line, link_pc, link_url, link_href>>
    /\ UNCHANGED <<probe_vars, scan_vars, parse_vars>>

ReviewNext ==
    \/ \E i \in Records : PairArrives(i)
    \/ \E key \in ReviewKeys, write_ok \in BOOLEAN : MainKey(key, write_ok)
    \/ MainRecv
    \/ MainDrained

ReviewSpec == ReviewInit /\ [][ReviewNext]_vars

\* ------------------------------------------ the upgrade map during the drain
\* the urls of the records whose results main aggregates: two that can be
\* upgraded and one that cannot
UpgradeURLS == {U_http, U_nested, U_https}

\* main up to the spawn of the scanner, nothing being reviewed or rewritten
UpgradeInit ==
    /\ ProbeIdle
    /\ ParseIdle
    /\ RewriteIdle
    /\ bookmarks \in UNION {[1..n -> UpgradeURLS] : n \in 0..MaxRecords}
    /\ concurrent_requests = 1
    /\ retries = 0
    /\ permits = 1
    /\ scan_pc = "acquire"
    /\ next_index = 0
    /\ join_index = 0
    /\ task = [i \in Records |-> "none"]
    /\ task_status = [i \in Records |-> NoStatus]
    /\ task_net = [i \in Records |-> <<>>]
    /\ observed = {}
    /\ chan = <<>>
    /\ rx_alive = TRUE
    /\ tx_dropped = FALSE
    /\ sent = [i \in Records |-> 0]
    /\ main_pc = "poll"
    /\ app_bookmarks = bookmarks
    /\ app_state = "Scanning"
    /\ should_quit = FALSE
    /\ scanned_count = 0
    /\ dead_links = <<>>
    /\ upgraded_links = <<>>

UpgradeNext ==
    \/ \E i \in Records : PairArrives(i)
    \/ MainPoll("none", TRUE)
    \/ MainRecv
    \/ MainDrained

UpgradeSpec == UpgradeInit /\ [][UpgradeNext]_vars

\* =========================================================================
\* Properties of scan_bookmarks and main (Spec)
\* =========================================================================
Holders == {i \in Records : HoldsPermit(i)}
InFlight == {i \in Records : task[i] = "probing"}
Limit == IF concurrent_requests = 0 THEN 1 ELSE concurrent_requests

\* C1: at every instant at most N = max(1, concurrent_requests) calls of
\* check_link_smart have started and not finished, whatever the number of
\* records: every running task holds one of the N permits, and no task is
\* started when none is left.
C1_InFlightBounded ==
    /\ Cardinality(InFlight) <= Limit
    /\ Cardinality(Holders) <= Limit
    /\ permits >= 0
    /\ main_pc # "shutdown" => permits + Cardinality(Holders) = Limit

\* C1 witness: every permit is held by a running probe while a record waits
C1_Witness ==
    /\ Cardinality(InFlight) = Limit
    /\ scan_pc = "acquire"
    /\ next_index < total_bookmarks

\* C2 as stated: when scan_bookmarks has returned, exactly one pair has been
\* put on the channel for each index and every task has finished.
C2_OnePairPerIndex ==
    /\ \A i \in Records : sent[i] <= 1
    /\ scan_pc = "returned" =>
          \A i \in Records : sent[i] = 1 /\ task[i] = "done"

\* C2 amended: no index is ever put on the channel twice; a task that has
\* ended has put exactly one pair, with its own index, on the channel unless
\* the receiver was dropped before its send, whose pair is then discarded;
\* scan_bookmarks returns and drops its sender only after every task has
\* finished.
C2_OnePairWhileReceiverOpen ==
    /\ \A i \in Records : sent[i] <= 1
    /\ \A i \in Records : task[i] = "done" => (sent[i] = 1 \/ ~rx_alive)
    /\ \A i \in Records : task[i] \in {"none", "probing", "sending"} => sent[i] = 0
    /\ scan_pc = "returned" =>
          /\ tx_dropped
          /\ \A i \in Records : task[i] = "done"
    /\ (tx_dropped /\ main_pc # "shutdown") => scan_pc = "returned"

\* C2 witness: a scan of several records has returned with the receiver open
C2_Witness ==
    /\ scan_pc = "returned"
    /\ rx_alive
    /\ total_bookmarks = MaxRecords
    /\ \A i \in Records : sent[i] = 1

\* C3: every pair on the channel carries the position of the record its
\* status was computed for, and that status is a result of check_link_smart
\* on the url as parsed; the dead-link list, the urls of the app and the
\* upgrade map refer to records by that same position.
C3_IndexIsIdentity ==
    /\ \A k \in DOMAIN chan :
          /\ chan[k][1] + 1 \in Records
          /\ chan[k][2] = task_status[chan[k][1] + 1]
          /\ chan[k][2] \in ScanOutcomes[bookmarks[chan[k][1] + 1], retries]
    /\ \A k \in DOMAIN dead_links :
          /\ dead_links[k][1] + 1 \in Records
          /\ task_status[dead_links[k][1] + 1] = Dead(dead_links[k][2])
    /\ Len(app_bookmarks) = Len(bookmarks)
    /\ \A i \in Records :
          \/ app_bookmarks[i] = bookmarks[i]
          \/ task_status[i] = Upgraded(app_bookmarks[i])
    /\ \A u \in DOMAIN upgraded_links :
          \E i \in Records : /\ bookmarks[i] = u
                             /\ task_status[i] = Upgraded(upgraded_links[u])

\* C3 witness: the second record's dead result is listed while the first
\* record, which has another url, is still being probed
C3_Witness ==
    /\ total_bookmarks >= 2
    /\ bookmarks[1] # bookmarks[2]
    /\ task[1] = "probing"
    /\ dead_links # <<>>
    /\ dead_links[1][1] = 1

\* C4 as stated: after the consumer has gone, every task that has started
\* has run to completion by the time the program ends.
C4_StartedTasksComplete ==
    main_pc = "shutdown" =>
        \A i \in Records : task[i] # "none" => task[i] = "done"

\* C4 amended: once the receiver has been dropped no send waits (it fails
\* at once, the task ends and gives its permit back) and nothing stays in
\* the channel; a task is left unfinished only by the end of the runtime,
\* which cancels it, and then every permit is back.
C4_NoTaskBlockedByAbsence ==
    /\ ~rx_alive => chan = <<>>
    /\ (~rx_alive /\ main_pc # "shutdown") =>
          \A i \in Records :
              task[i] = "sending" => SendOutcome(Len(chan), rx_alive) = "closed"
    /\ \A i \in Records : task[i] = "cancelled" => main_pc = "shutdown"
    /\ main_pc = "shutdown" =>
          /\ Holders = {}
          /\ permits = Limit

\* C4 witness: a task has ended after the receiver was dropped, its result
\* discarded, while the runtime is still up
C4_Witness ==
    /\ main_pc = "returned"
    /\ \E i \in Records : task[i] = "done" /\ sent[i] = 0

\* C5: with concurrent_requests = 0 the scan runs as with 1: there is one
\* permit, so at most one probe is in flight, the first acquire does not
\* wait, and a scan that returns has probed every record.
C5_ZeroIsOne ==
    concurrent_requests = 0 =>
        /\ Cardinality(InFlight) <= 1
        /\ main_pc # "shutdown" => permits + Cardinality(Holders) = 1
        /\ (scan_pc = "acquire" /\ Holders = {}) => CanAcquire(permits)
        /\ scan_pc = "returned" =>
              \A i \in Records : task[i] = "done" /\ task_status[i] # NoStatus

\* C5 witness: a scan of several records with limit 0 has returned
C5_Witness ==
    /\ concurrent_requests = 0
    /\ total_bookmarks = MaxRecords
    /\ scan_pc = "returned"
    /\ rx_alive

\* =========================================================================
\* Properties of check_link (ProbeSpec)
\* =========================================================================
Gets(phase) ==
    {k \in DOMAIN p_log : p_log[k].ev = "get" /\ p_log[k].phase = phase}

\* the status the check_link call of the phase returned, NoStatus before
StatusOf(phase) == IF phase = 1 THEN p_status ELSE p_https

LastOfPhase(k) ==
    \A j \in DOMAIN p_log : j > k => p_log[j].phase # p_log[k].phase

\* C6: one call of check_link makes at most max_retries + 1 requests.
C6_AtMostRetriesPlusOne ==
    \A phase \in {1, 2} : Cardinality(Gets(phase)) <= p_retries + 1

\* C6 witness: a call with retries > 0 has used all its attempts
C6_Witness ==
    /\ p_pc = "done"
    /\ p_retries >= 1
    /\ Cardinality(Gets(1)) = p_retries + 1

\* C7: a call of check_link all of whose requests failed to connect has made
\* exactly max_retries + 1 requests and returned Dead.
C7_ConnectFailuresExhaust ==
    \A phase \in {1, 2} :
        ( /\ StatusOf(phase) # NoStatus
          /\ Gets(phase) # {}
          /\ \A k \in Gets(phase) :
                p_log[k].resp.t = "err" /\ p_log[k].resp.connect )
        => /\ Cardinality(Gets(phase)) = p_retries + 1
           /\ IsDead(StatusOf(phase))

\* C7 witness: such a call, with the largest retries
C7_Witness ==
    /\ p_retries = MaxRetries
    /\ StatusOf(1) = Dead("DNS/Connection Error")
    /\ Cardinality(Gets(1)) = MaxRetries + 1
    /\ \A k \in Gets(1) : p_log[k].resp = E_connect

\* C8: an HTTP response ends the call at that request; the status returned
\* is Dead, its reason naming the code and Not Found/Gone, exactly for the
\* codes 404 and 410, and Ok for every other code.
C8_ResponseDecides ==
    \A k \in DOMAIN p_log :
        (p_log[k].ev = "get" /\ p_log[k].resp.t = "resp") =>
            /\ LastOfPhase(k)
            /\ StatusOf(p_log[k].phase) =
                  (CASE p_log[k].resp.code = 404 ->
                            Dead("404 Not Found Not Found/Gone")
                     [] p_log[k].resp.code = 410 ->
                            Dead("410 Gone Not Found/Gone")
                     [] OTHER -> Ok)

\* C8 witness: a 503 received on a retry ends the call with Ok
C8_Witness ==
    /\ p_pc = "done"
    /\ Cardinality(Gets(1)) = 2
    /\ \E k \in Gets(1) : p_log[k].resp = Response(503)
    /\ p_result = Ok

\* C9 as stated: check_link returns Ok with no request for every url whose
\* scheme is neither http nor https, and makes at least one request for
\* every url whose scheme is http or https.
C9_SchemeDecides ==
    StatusOf(1) # NoStatus =>
        /\ ~IsWebScheme(p_url) => (p_status = Ok /\ Gets(1) = {})
        /\ IsWebScheme(p_url) => Gets(1) # {}

\* C10 as stated: a request that fails on the redirect cap ends the call at
\* that request and the status is Dead("Redirect Loop"), whatever
\* max_retries and whichever attempt it is.
C10_RedirectLoop ==
    \A k \in DOMAIN p_log :
        (p_log[k].ev = "get" /\ p_log[k].resp.redirect) =>
            /\ LastOfPhase(k)
            /\ StatusOf(p_log[k].phase) = Dead("Redirect Loop")

\* the value of attempts when the request of log entry k was sent
AttemptsAt(k) ==
    Cardinality({j \in Gets(p_log[k].phase) : j < k})

IsTransportFailure(k) == p_log[k].ev = "get" /\ p_log[k].resp.t = "err"

\* C11: in check_link a timeout or connect failure met with retries left
\* does not end the call: a delay of 2000 ms follows, then another request
\* for the same url; any other transport failure ends the call at that
\* request with Dead and no further request of that call follows.
C11_RetryOnlyTimeoutOrConnect ==
    \A k \in DOMAIN p_log :
        IsTransportFailure(k) =>
            IF (p_log[k].resp.timeout \/ p_log[k].resp.connect)
                  /\ AttemptsAt(k) < p_retries
            THEN /\ StatusOf(p_log[k].phase) = NoStatus
                       \/ ~LastOfPhase(k)
                 /\ k = Len(p_log) => p_pc = "sleep"
                 /\ k < Len(p_log) =>
                       /\ p_log[k + 1] = SleepEvent(p_log[k].phase, p_log[k].url)
                       /\ p_log[k + 1].ms = 2000
                       /\ k + 1 = Len(p_log) => p_pc = "get"
                 /\ k + 1 < Len(p_log) =>
                       /\ p_log[k + 2].ev = "get"
                       /\ p_log[k + 2].phase = p_log[k].phase
                       /\ p_log[k + 2].url = p_log[k].url
            ELSE /\ LastOfPhase(k)
                 /\ IsDead(StatusOf(p_log[k].phase))
                 /\ k < Len(p_log) => p_log[k + 1].ev = "get"

\* C11 witness: a timeout with retries left was followed by the delay and a
\* second request, whose redirect failure ended the call with retries left
C11_Witness ==
    /\ p_pc = "done"
    /\ p_retries = MaxRetries
    /\ Len(p_log) = 3
    /\ p_log[1].resp = E_timeout
    /\ p_log[2].ev = "sleep"
    /\ p_log[3].resp = E_redirect

\* the last request of the check_link call of the phase
LastGet(phase) == CHOOSE k \in Gets(phase) : \A j \in Gets(phase) : j <= k

EndedByFailure(phase) ==
    /\ IsDead(StatusOf(phase))
    /\ Gets(phase) # {}
    /\ p_log[LastGet(phase)].resp.t = "err"

\* C12 as stated: when check_link returns Dead after a transport failure the
\* reason is "Timeout" for a timeout, "DNS/Connection Error" for a connect
\* failure and the raw error text for every other failure.
C12_ReasonByKind ==
    \A phase \in {1, 2} :
        EndedByFailure(phase) =>
            LET e == p_log[LastGet(phase)].resp
            IN  StatusOf(phase) =
                    Dead(IF e.timeout THEN "Timeout"
                         ELSE IF e.connect THEN "DNS/Connection Error"
                         ELSE e.text)

\* C12 amended: the reason is "Timeout" for a timeout, otherwise
\* "DNS/Connection Error" for a connect failure, otherwise "Redirect Loop"
\* for a redirect failure met when no retry is left and the raw error text
\* for a redirect failure met with retries left and for every other failure.
C12_ReasonByKindAndRetries ==
    \A phase \in {1, 2} :
        EndedByFailure(phase) =>
            LET k == LastGet(phase)
                e == p_log[k].resp
            IN  StatusOf(phase) =
                    Dead(IF e.timeout THEN "Timeout"
                         ELSE IF e.connect THEN "DNS/Connection Error"
                         ELSE IF e.redirect /\ AttemptsAt(k) >= p_retries
                              THEN "Redirect Loop"
                         ELSE e.text)

\* C12 witness: a redirect failure after the retries were used up by timeouts
C12_Witness ==
    /\ p_retries = 1
    /\ Cardinality(Gets(1)) = 2
    /\ p_log[1].resp = E_connect_timeout
    /\ p_log[LastGet(1)].resp = E_redirect
    /\ StatusOf(1) = Dead("Redirect Loop")

\* =========================================================================
\* Properties of check_link_smart (ProbeSpec)
\* =========================================================================
\* C13: when the probe of a url that starts with http:// returned Dead and
\* the probe of the https url returned Ok, check_link_smart returns Upgraded
\* with the https url that was probed, never Dead.
C13_UpgradedNotDead ==
    ( /\ p_pc = "done"
      /\ StartsWith(p_url, HTTP_SCHEME)
      /\ IsDead(p_status)
      /\ p_https = Ok )
    => /\ p_result.tag = "Upgraded"
       /\ StartsWith(p_result.url, HTTPS_SCHEME)
       /\ \A k \in Gets(2) : p_log[k].url = p_result.url

\* C13 witness: http://a dead by connect failures, https://a answers 200
C13_Witness ==
    /\ p_pc = "done"
    /\ p_url = U_http
    /\ p_status = Dead("DNS/Connection Error")
    /\ p_https = Ok
    /\ p_result = Upgraded(U_https)

\* C14: when the first probe of a url that starts with http:// returned
\* Dead(reason) and the https probe did not return Ok, check_link_smart
\* returns the Dead(reason) of the first probe, not that of the https probe.
C14_FirstDeadKept ==
    ( /\ p_pc = "done"
      /\ StartsWith(p_url, HTTP_SCHEME)
      /\ IsDead(p_status)
      /\ p_https # Ok )
    => /\ p_result = p_status
       /\ IsDead(p_https) /\ Gets(2) # {}

\* C14 witness: the first probe got 404, the https probe timed out
C14_Witness ==
    /\ p_pc = "done"
    /\ p_status = Dead("404 Not Found Not Found/Gone")
    /\ p_https = Dead("Timeout")
    /\ p_result = Dead("404 Not Found Not Found/Gone")

\* C15: a request of the https probe is sent only after the first probe has
\* returned Dead and only for a url that starts with http://; when the
\* first probe returned Ok or the url does not start with http://, no
\* second probe is made and the result is that of the first probe; so
\* Upgraded is returned only for a url that starts with http://.
C15_SecondProbeOnlyForDeadHttp ==
    /\ Gets(2) # {} =>
          /\ IsDead(p_status)
          /\ StartsWith(p_url, HTTP_SCHEME)
          /\ \A j \in DOMAIN p_log, k \in Gets(2) :
                p_log[j].phase = 1 => j < k
    /\ (p_pc = "done" /\ (p_status = Ok \/ ~StartsWith(p_url, HTTP_SCHEME))) =>
          /\ Gets(2) = {}
          /\ p_https = NoStatus
          /\ p_result = p_status
    /\ p_result.tag = "Upgraded" => StartsWith(p_url, HTTP_SCHEME)

\* C15 witness: an https url found dead: no second probe, Dead returned
C15_Witness ==
    /\ p_pc = "done"
    /\ p_url = U_https
    /\ IsDead(p_result)
    /\ Gets(1) # {}
    /\ Gets(2) = {}

\* =========================================================================
\* Properties of the scan across records (IsolationSpec)
\* =========================================================================
\* the status main has received for record i, NoStatus before
Delivered(i) ==
    IF \E k \in DOMAIN dead_links : dead_links[k][1] = i - 1
    THEN LET k == CHOOSE k \in DOMAIN dead_links : dead_links[k][1] = i - 1
         IN  Dead(dead_links[k][2])
    ELSE IF app_bookmarks[i] # bookmarks[i] THEN Upgraded(app_bookmarks[i])
    ELSE NoStatus

\* the status check_link_smart gives for the url of record i, retries and
\* the responses the requests of record i got
OwnStatus(i) == ReplaySmart(bookmarks[i], retries, task_net[i]).status

IsProperPrefix(a, b) == Len(a) < Len(b) /\ SubSeq(b, 1, Len(a)) = a

\* a comes before b in the pre-order walk of the document
Before(a, b) ==
    \/ IsProperPrefix(a, b)
    \/ \E k \in 1..Len(a) :
          /\ k <= Len(b)
          /\ SubSeq(a, 1, k - 1) = SubSeq(b, 1, k - 1)
          /\ a[k] < b[k]

RECURSIVE LinksIn(_, _)
\* the places of all the a elements among kids and below them
LinksIn(kids, at) ==
    UNION { (IF kids[k].name = "a" THEN {Append(at, k)} ELSE {})
                \cup LinksIn(kids[k].children, Append(at, k))
            : k \in DOMAIN kids }

LinkEvents == {k \in DOMAIN parsed.log : parsed.log[k].ev = "link"}
Vetoed == {k \in LinkEvents : parsed.log[k].skipped}
Pushes == {k \in DOMAIN parsed.log : parsed.log[k].ev = "push"}
HasRecord(at) == \E i \in DOMAIN parsed.bookmarks : parsed.bookmarks[i].at = at

\* C17: the records are in document order: of two links that both yield a
\* record, the one met first in a pre-order walk of the document has the
\* smaller index; each record comes from one link element of the document.
C17_DocumentOrder ==
    parse_pc = "done" =>
        /\ \A i, j \in DOMAIN parsed.bookmarks :
              i < j => Before(parsed.bookmarks[i].at, parsed.bookmarks[j].at)
        /\ \A i \in DOMAIN parsed.bookmarks :
              parsed.bookmarks[i].at \in LinksIn(document, <<>>)

\* C17 witness: three records, the second nested deeper than the first and
\* the third
C17_Witness ==
    /\ parse_pc = "done"
    /\ Len(parsed.bookmarks) = 3
    /\ Len(parsed.bookmarks[2].at) > Len(parsed.bookmarks[1].at)
    /\ Len(parsed.bookmarks[2].at) > Len(parsed.bookmarks[3].at)

\* C18 as stated: the records returned and the links vetoed by should_skip
\* add up to the link elements of the document, whatever they are nested in.
C18_NoLinkLost ==
    parse_pc = "done" =>
        Len(parsed.bookmarks) + Cardinality(Vetoed)
            = Cardinality(LinksIn(document, <<>>))

IsLocalAddress(host) ==
    LET parts == Split(host, ".")
        octet(k) == ParseU8(parts[k]).value
    IN  \/ host = LOCALHOST
        \/ EndsWith(host, SUFFIX_LOCAL)
        \/ /\ Len(parts) = 4
           /\ \A k \in 1..4 : ParseU8(parts[k]).ok
           /\ \/ host = LOOPBACK
              \/ octet(1) = 10
              \/ octet(1) = 192 /\ octet(2) = 168
              \/ octet(1) = 172 /\ octet(2) \in 16..31

\* C20 as stated: with ignore_local on and nothing excluded, should_skip is
\* true for a url whose host is a local address and false for every other
\* host and for every url that does not parse.
C20_LocalHostsOnly ==
    (skip_pc = "done" /\ ignore_local /\ exclude_folders = {}) =>
        skip_result =
            LET u == ParseUrl(skip_url)
            IN  u.ok /\ u.host # <<>> /\ IsLocalAddress(u.host[1])

Calls == {k \in DOMAIN parsed.log : parsed.log[k].ev = "call"}
Returns == {k \in DOMAIN parsed.log : parsed.log[k].ev = "ret"}
PushAt(at) == {q \in Pushes : parsed.log[q].at = at}

RECURSIVE NamesAlong(_, _)
\* the names pushed for the folder bodies at the first n prefixes of the
\* place `at`, outermost first
NamesAlong(at, n) ==
    IF n = 0 THEN <<>>
    ELSE NamesAlong(at, n - 1)
           \o (IF PushAt(SubSeq(at, 1, n)) = {} THEN <<>>
               ELSE <<parsed.log[CHOOSE q \in PushAt(SubSeq(at, 1, n)) : TRUE].name>>)

RightBefore(h, d) ==
    LET up == SubSeq(d, 1, Len(d) - 1)
        prev == Append(up, d[Len(d)] - 1)
    IN  h = prev \/ (Len(h) = Len(d) + 1 /\ SubSeq(h, 1, Len(d)) = prev)

\* C29 as stated: a name is pushed for a folder body only if the heading that
\* set the name comes right before that body; a body separated from the
\* heading by other elements pushes nothing.
C29_PushOnlyRightAfterHeading ==
    parse_pc = "done" =>
        \A q \in Pushes : RightBefore(parsed.log[q].from, parsed.log[q].at)

\* C30 as stated: no heading gives its name to two folder bodies.
C30_HeadingNamesOneBody ==
    parse_pc = "done" =>
        \A q1, q2 \in Pushes :
            parsed.log[q1].from = parsed.log[q2].from => q1 = q2

\* =========================================================================
\* Properties of the rewriter (RewriteSpec)
\* =========================================================================
\* C21 as stated: with an empty removal set and an empty upgrade map the
\* text returned is the input text, whatever its line separators are and
\* whether or not it ends with one.
C21_IdentityWhenNothingToDo ==
    (rewrite_pc = "done" /\ urls_to_remove = {} /\ DOMAIN upgraded = {}) =>
        cleaned_content = original_html

\* the lines of the input the rewriter does not drop, by position
KeptLines ==
    LET lines == Lines(original_html)
    IN  {k \in DOMAIN lines :
            LET url == LineUrl(lines[k])
            IN  ~(url # <<>> /\ url[1] \in urls_to_remove)}

\* the position in the input of the j-th line that is not dropped
KeptAt(j) ==
    LET kept == KeptLines
    IN  CHOOSE k \in kept : Cardinality({i \in kept : i <= k}) = j

\* C22: the lines pushed are, in their order, the lines of the input whose
\* extracted href is not in the removal set (a line with no extracted href is
\* always pushed), and a line whose href is in the removal set is dropped
\* also when it is a key of the upgrade map; a pushed line is the input line
\* as it was unless its href is a key of the upgrade map; the text returned
\* is the pushed lines joined by "\n".
C22_DropsExactlyRemoved ==
    rewrite_pc = "done" =>
        /\ Len(new_lines) = Cardinality(KeptLines)
        /\ LET lines == Lines(original_html)
               kept == KeptLines
           IN  \A k \in kept :
                  LET line == lines[k]
                      url == LineUrl(line)
                      j == Cardinality({i \in kept : i <= k})
                  IN  (url = <<>> \/ url[1] \notin DOMAIN upgraded)
                          => new_lines[j] = line
        /\ cleaned_content = Join(new_lines, <<LF>>)

\* C22 witness: of two lines the first is dropped, its href being in the
\* removal set and a key of the upgrade map as well, and the second, an
\* indented link line, is returned as it was
C22_Witness ==
    /\ rewrite_pc = "done"
    /\ Len(Lines(original_html)) = 2
    /\ LineUrl(Lines(original_html)[1]) = OptionOf(U_http)
    /\ U_http \in urls_to_remove
    /\ U_http \in DOMAIN upgraded
    /\ new_lines = <<Lines(original_html)[2]>>
    /\ LineUrl(new_lines[1]) = OptionOf(U_https)

\* the text with its first match of from replaced, if there is one
ReplaceFirst(s, from, to) ==
    IF Contains(s, from)
    THEN SubSeq(s, 1, Find(s, from)) \o to
            \o SubSeq(s, Find(s, from) + Len(from) + 1, Len(s))
    ELSE s

\* C23 as stated: a pushed line whose href is a key of the upgrade map is the
\* input line with the first occurrence of the old url replaced by the new
\* one and every later occurrence left as it was.
C23_FirstOccurrenceOnly ==
    rewrite_pc = "done" =>
        \A j \in DOMAIN new_lines :
            LET line == Lines(original_html)[KeptAt(j)]
                url == LineUrl(line)
            IN  (url # <<>> /\ url[1] \in DOMAIN upgraded)
                    => new_lines[j] = ReplaceFirst(line, url[1], upgraded[url[1]])

\* C24 as stated: the url the parser stores for a link is the string
\* extract_href returns for the line holding the link.
C24_SameHref ==
    link_pc = "done" => link_href = OptionOf(link_url)

\* =========================================================================
\* Properties of the review and the save (ReviewSpec)
\* =========================================================================
\* the records whose delivered status is Dead and that are not kept
ToRemove ==
    {i \in Records : IsDead(task_status[i]) /\ (i - 1) \notin bookmarks_to_keep}

\* C25: when the user has saved, the removal set handed to the rewriter is
\* the set of the urls of the records whose delivered status was Dead and
\* that were not in the keep set; the indices listed as dead are those whose
\* delivered status was Dead, so no record with status Ok or Upgraded
\* contributes.
C25_RemovalFromDeadNotKept ==
    rewrite_pc = "done" =>
        /\ DeadIndices(dead_links) =
              {i - 1 : i \in {j \in Records : IsDead(task_status[j])}}
        /\ urls_to_remove = {app_bookmarks[i] : i \in ToRemove}
        /\ \A i \in ToRemove : app_bookmarks[i] = bookmarks[i]

\* C25 witness: saved with a dead record kept, a dead record with another url
\* not kept, and so only the second url in the removal set
C25_Witness ==
    /\ rewrite_pc = "done"
    /\ Len(bookmarks) = 2
    /\ IsDead(task_status[1]) /\ IsDead(task_status[2])
    /\ bookmarks_to_keep = {0}
    /\ bookmarks[1] = U_http
    /\ urls_to_remove = {U_https}

\* the line of record k is not among the lines pushed
LineLost(k) ==
    \A j \in DOMAIN new_lines :
        new_lines[j] \notin {ReviewLine(u, k) : u \in ReviewURLS}

\* C26 as stated: when the user has saved, the line of a record is lost only
\* if the status delivered for that record was Dead and the record is not in
\* the keep set.
C26_OnlyOwnDeadLineLost ==
    rewrite_pc = "done" =>
        \A k \in Records : LineLost(k) => k \in ToRemove

\* =========================================================================
\* Progress of the scan (LiveSpec)
\* =========================================================================
\* every record's pair has been sent and received
AllDelivered ==
    /\ \A i \in Records : sent[i] = 1
    /\ chan = <<>>
    /\ scanned_count = total_bookmarks

\* C27: with a consumer that keeps draining and requests that all end, under
\* fair scheduling there comes a point from which on every record's pair has
\* been received by main, scan_bookmarks has returned and the app is no
\* longer Scanning, whatever the number of records and the limit are.
C27_ScanCompletes ==
    <>[](AllDelivered /\ scan_pc = "returned" /\ app_state # "Scanning")

\* C27 witness: more records than permits (the limit given as 0), all
\* delivered, the scan returned and the app Finished
C27_Witness ==
    /\ Len(bookmarks) = 2
    /\ concurrent_requests = 0
    /\ AllDelivered
    /\ scan_pc = "returned"
    /\ app_state = "Finished"

\* =========================================================================
\* The upgraded url and the number of requests (ProbeSpec)
\* =========================================================================
\* C31 as stated: the url returned in Upgraded is the original url with its
\* leading http:// replaced by https:// and every other character unchanged.
C31_OnlySchemeChanged ==
    (p_pc = "done" /\ p_result.tag = "Upgraded") =>
        /\ StartsWith(p_url, HTTP_SCHEME)
        /\ p_result.url =
              HTTPS_SCHEME \o SubSeq(p_url, Len(HTTP_SCHEME) + 1, Len(p_url))

AllGets == {k \in DOMAIN p_log : p_log[k].ev = "get"}

\* C38: one call of check_link_smart with retries = r makes at most
\* 2 * (r + 1) requests: at most r + 1 for the original url, then at most
\* r + 1 for the https url, every request for the original url having ended
\* before the first one for the https url; a request goes to no other url.
C38_AtMostTwiceRetriesPlusOne ==
    /\ Cardinality(AllGets) <= 2 * (p_retries + 1)
    /\ AllGets = Gets(1) \cup Gets(2)
    /\ Cardinality(Gets(1)) <= p_retries + 1
    /\ Cardinality(Gets(2)) <= p_retries + 1
    /\ \A k \in Gets(1) : p_log[k].url = p_url
    /\ \A k \in Gets(2) : p_log[k].url = HttpsUrl(p_url) /\ p_status # NoStatus
    /\ \A k \in Gets(1), j \in Gets(2) : k < j

\* C38 witness: a call with retries > 0 that used every attempt of both
\* probes
C38_Witness ==
    /\ p_pc = "done"
    /\ p_retries >= 1
    /\ Cardinality(Gets(1)) = p_retries + 1
    /\ Cardinality(Gets(2)) = p_retries + 1
    /\ Cardinality(AllGets) = 2 * (p_retries + 1)

\* C32: a line that holds no "<a" in any case, and a line that does but from
\* which extract_href gets no value, is pushed as it was, whatever the removal
\* set and the upgrade map hold; in particular a line without the token that
\* holds an href of the removal set.
C32_OtherLinesUnchanged ==
    rewrite_pc = "done" =>
        LET lines == Lines(original_html)
            kept == KeptLines
        IN  \A k \in DOMAIN lines :
                LET line == lines[k]
                    trimmed == Trim(line)
                IN  (~Contains(LowerText(trimmed), LINK_TOKEN)
                        \/ extract_href(trimmed) = <<>>)
                    => /\ k \in kept
                       /\ new_lines[Cardinality({i \in kept : i <= k})] = line

\* C32 witness: the removal set and the upgrade map both hold http://a; a
\* line without the token that holds that href, and a link tag without href,
\* are the two lines returned
C32_Witness ==
    /\ rewrite_pc = "done"
    /\ U_http \in urls_to_remove
    /\ U_http \in DOMAIN upgraded
    /\ Len(new_lines) = 2
    /\ new_lines = Lines(original_html)
    /\ extract_href(new_lines[1]) = OptionOf(U_http)
    /\ ~Contains(LowerText(new_lines[1]), LINK_TOKEN)
    /\ Contains(LowerText(new_lines[2]), LINK_TOKEN)
    /\ extract_href(new_lines[2]) = <<>>

\* =========================================================================
\* Properties of the loop of main and of the review (Spec, ReviewSpec)
\* =========================================================================
\* C33 (as stated): while a task of the scan has not ended, no record of the
\* app has a url other than the one parsed.
C33_ReadOnlyDuringScan ==
    (\E i \in Records : task[i] # "done") => app_bookmarks = bookmarks

\* C33 (amended): the list moved into the scanner never changes and the
\* status a task gets is one check_link_smart can return for the url of its
\* record in that list; the url of a record of the app changes only in a pass
\* of the drain loop of main that takes the Upgraded pair of that record off
\* the channel, a step in which no task moves, and so after the task of that
\* record has ended, though tasks of other records may still run.
C33_OverwriteOnlyByConsumer ==
    [][/\ bookmarks' = bookmarks
       /\ \A i \in Records :
            /\ (task[i] = "probing" /\ task'[i] = "sending") =>
                  task_status'[i] \in ScanOutcomes[bookmarks[i], retries]
            /\ app_bookmarks'[i] # app_bookmarks[i] =>
                  /\ main_pc = "drain" /\ main_pc' = "drain"
                  /\ chan # <<>> /\ chan' = Tail(chan)
                  /\ Head(chan) = <<i - 1, Upgraded(app_bookmarks'[i])>>
                  /\ task' = task /\ task_status' = task_status
                  /\ task[i] = "done"]_vars

\* C33 witness: the url of the first record has been overwritten by main
\* while the task of the second record is still probing
C33_Witness ==
    /\ total_bookmarks = 2
    /\ bookmarks = <<U_http, U_http>>
    /\ app_bookmarks = <<U_https, U_http>>
    /\ task[1] = "done"
    /\ task[2] = "probing"

\* the pair of record i has been taken off the channel by main
Received(i) ==
    sent[i] = 1 /\ ~\E k \in DOMAIN chan : chan[k][1] = i - 1

\* the records whose pair main has received with the status Upgraded
ReceivedUpgraded ==
    {i \in Records : Received(i) /\ task_status[i].tag = "Upgraded"}

\* C34: at every point of the loop of main the keys of the upgrade map are
\* the urls, as parsed, of the records whose received status was Upgraded,
\* one entry for each distinct url, and the entry of such a url holds the
\* https url that was received; so a pair with Ok or Dead leaves the map as
\* it was.
C34_UpgradeMapExact ==
    main_pc \in {"poll", "drain"} =>
        /\ DOMAIN upgraded_links = {bookmarks[i] : i \in ReceivedUpgraded}
        /\ \A i \in ReceivedUpgraded :
              upgraded_links[bookmarks[i]] = task_status[i].url

\* C34 witness: two records of different urls have both been received as
\* Upgraded, and the map holds the two entries
C34_Witness ==
    /\ bookmarks = <<U_http, U_nested>>
    /\ ReceivedUpgraded = {1, 2}
    /\ DOMAIN upgraded_links = {U_http, U_nested}
    /\ upgraded_links[U_http] = U_https
    /\ main_pc = "poll"

\* the moves of the app state
StateMoves ==
    {<<"Scanning", "Finished">>, <<"Finished", "Saved">>,
     <<"Finished", "Error">>}

\* C35: the app state moves only from Scanning to Finished and from Finished
\* to Saved or Error; it is Scanning no longer only when the pair of every
\* record has been received, and a pass of the loop that ends with as many
\* pairs received as there are records (the first pass when there are none)
\* leaves it Finished or later; process_bookmarks runs only in the key
\* handler in the state Finished, in the step that moves the state to Saved
\* or Error; should_quit is set only in the key handler, in a step that
\* leaves the app state as it is, so neither the receipt of a pair nor a
\* failed write sets it, and main leaves the loop only when it is set.
C35_StateMachine ==
    /\ [](app_state # "Scanning" =>
              /\ scanned_count >= total_bookmarks
              /\ \A i \in Records : Received(i))
    /\ [][/\ app_state' # app_state => <<app_state, app_state'>> \in StateMoves
          /\ (main_pc = "drain" /\ main_pc' # "drain"
                  /\ scanned_count >= total_bookmarks)
                => app_state' # "Scanning"
          /\ rewrite_pc' # rewrite_pc =>
                /\ main_pc = "poll"
                /\ app_state = "Finished"
                /\ app_state' \in {"Saved", "Error"}
          /\ app_state' \in {"Saved", "Error"} /\ app_state = "Finished" =>
                rewrite_pc' = "done" /\ rewrite_pc = "start"
          /\ should_quit' # should_quit =>
                main_pc = "poll" /\ app_state' = app_state
          /\ main_pc' = "exited" => should_quit]_vars

\* C35 witness: both results are in, one of them Dead; Enter was pressed in
\* the state Finished, the write failed, and the app has not quit
C35_Witness ==
    /\ total_bookmarks = 2
    /\ scanned_count = 2
    /\ Len(dead_links) = 1
    /\ app_state = "Error"
    /\ rewrite_pc = "done"
    /\ ~should_quit
    /\ main_pc = "poll"

\* C36: whatever pairs have been received and whatever keys were pressed,
\* every index of the keep set is the index of an entry of the dead-link
\* list, and the entries of the dead-link list have different indices.
C36_KeepWithinDead ==
    /\ bookmarks_to_keep \subseteq DeadIndices(dead_links)
    /\ \A j, k \in DOMAIN dead_links :
          dead_links[j][1] = dead_links[k][1] => j = k

\* C36 witness: two records are dead, the second was received first; the
\* entry at the second position, the first record, has been toggled into the
\* keep set and the other has not
C36_Witness ==
    /\ Len(dead_links) = 2
    /\ dead_links[1][1] = 1 /\ dead_links[2][1] = 0
    /\ list_state = 1
    /\ bookmarks_to_keep = {0}

====
